---- MODULE Spec2Model ----
(***************************************************************************)
(* Error-protection layer of xinjinheng/ui (packages/shadcn/src/           *)
(* error-protection): the resilient request engine SafeFetch, the          *)
(* Exception Log it writes to, and the dispatch of exceptions to handlers  *)
(* by ExceptionRegistry and ExceptionInterceptor.                          *)
(*                                                                         *)
(* A SafeFetch.fetch call is an async function: it runs from one await to  *)
(* the next without interruption.  Each action below is the code between   *)
(* two suspension points of one call.                                      *)
(***************************************************************************)
EXTENDS Integers, Sequences, FiniteSets, TLC

(***************************************************************************)
(* Bounds of the model.                                                    *)
(***************************************************************************)
\* largest retryCount a caller passes
MaxRetry == 2
\* number of handleException calls in a run
MaxDispatch == 2
\* number of initialize() calls in a run
MaxInitialize == 3
\* number of records a caller writes to the log directly
MaxLogged == 3

(***************************************************************************)
(* Strings.  A message is the sequence of its characters, so that          *)
(* String.prototype.includes is a real substring search.                   *)
(***************************************************************************)
Includes(s, sub) ==
    \E i \in 1..(Len(s) - Len(sub) + 1) : SubSeq(s, i, i + Len(sub) - 1) = sub

RECURSIVE NumberToString(_)
\* the decimal form a template literal gives a non-negative integer
NumberToString(n) ==
    IF n < 10 THEN <<<<"0","1","2","3","4","5","6","7","8","9">>[n + 1]>>
    ELSE NumberToString(n \div 10) \o <<<<"0","1","2","3","4","5","6","7","8","9">>[(n % 10) + 1]>>

sub_null == <<"n","u","l","l">>
sub_undefined == <<"u","n","d","e","f","i","n","e","d">>
sub_is_not_a_function ==
    <<"i","s"," ","n","o","t"," ","a"," ","f","u","n","c","t","i","o","n">>
sub_fetch == <<"f","e","t","c","h">>
sub_network == <<"n","e","t","w","o","r","k">>
sub_timeout == <<"t","i","m","e","o","u","t">>
sub_JSON == <<"J","S","O","N">>

\* messages of the errors the transport raises

(***************************************************************************)
(* Thrown values.  isError is `instanceof Error`.                          *)
(***************************************************************************)
MkError(n, m) == [isError |-> TRUE, name |-> n, message |-> m]
\* `undefined` in a slot of type Error | undefined
NoError == [isError |-> FALSE, name |-> "undefined", message |-> <<>>]

\* what fetch() rejects with: a browser's network failure, the rejection the
\* repository's tests mock, and the abort raised by controller.abort()
NetworkFailure == MkError("TypeError", (<<"F","a","i","l","e","d"," ","t","o"," ","f","e","t","c","h">>))
AbortError == MkError("AbortError", (<<"a","b","o","r","t","e","d">>))
\* what response.json() and JSON.parse throw on a body that is not JSON
JsonSyntaxError == MkError("SyntaxError", (<<"U","n","e","x","p","e","c","t","e","d"," ","t","o","k","e","n", " ","<"," ","i","n"," ","J","S","O","N">>))

TransportRejections == {NetworkFailure}

(***************************************************************************)
(* ExceptionType and the log's classifier.                                 *)
(***************************************************************************)
NULL_POINTER == "NullPointerException"
TYPE_ERROR == "TypeError"
RANGE_ERROR == "RangeError"
SYNTAX_ERROR == "SyntaxError"
REFERENCE_ERROR == "ReferenceError"
NETWORK_ERROR == "NetworkError"
DATA_ERROR == "DataError"
RESOURCE_ERROR == "ResourceError"
GENERAL_ERROR == "GeneralError"

\* the classifier with the message checks ahead of the TypeError rules
determineExceptionTypeMessageFirst(error) ==
    IF \/ Includes(error.message, sub_fetch)
       \/ Includes(error.message, sub_network)
       \/ Includes(error.message, sub_timeout)
    THEN NETWORK_ERROR
    ELSE IF error.name = "TypeError"
            /\ (Includes(error.message, sub_null) \/ Includes(error.message, sub_undefined))
    THEN NULL_POINTER
    ELSE GENERAL_ERROR

\* ExceptionLogger.determineExceptionType
determineExceptionType(error) ==
    IF error.name = "TypeError" THEN
        IF Includes(error.message, sub_null) \/ Includes(error.message, sub_undefined)
        THEN NULL_POINTER
        ELSE IF Includes(error.message, sub_is_not_a_function)
        THEN TYPE_ERROR
        ELSE GENERAL_ERROR
    ELSE IF error.name = "RangeError" THEN RANGE_ERROR
    ELSE IF error.name = "SyntaxError" THEN SYNTAX_ERROR
    ELSE IF error.name = "ReferenceError" THEN REFERENCE_ERROR
    ELSE IF error.name = "AbortError" THEN NETWORK_ERROR
    ELSE IF \/ Includes(error.message, sub_fetch)
            \/ Includes(error.message, sub_network)
            \/ Includes(error.message, sub_timeout)
    THEN NETWORK_ERROR
    ELSE IF Includes(error.message, sub_JSON) THEN DATA_ERROR
    ELSE GENERAL_ERROR

(***************************************************************************)
(* JSON values, bodies, responses.                                         *)
(*                                                                         *)
(* An updatedAt field is absent, a number (epoch milliseconds) or a        *)
(* string; `ms` is the time `new Date(updatedAt)` denotes and `valid` is   *)
(* false when that Date is an Invalid Date.                                *)
(***************************************************************************)
NoUpdatedAt == [ty |-> "absent", ms |-> 0, valid |-> FALSE]
DateString(n) == [ty |-> "string", ms |-> n, valid |-> TRUE]

\* JavaScript truthiness of an updatedAt field: undefined and the number 0
\* are falsy, a non-empty string is truthy
Truthy(u) ==
    CASE u.ty = "absent" -> FALSE
      [] u.ty = "number" -> u.ms # 0
      [] u.ty = "string" -> TRUE


JUndefined == [kind |-> "undefined", origin |-> "", updatedAt |-> NoUpdatedAt]
JObject(o, u) == [kind |-> "object", origin |-> o, updatedAt |-> u]


\* a body is a text: it is present or not, and it parses as JSON or not
NoBody == [present |-> FALSE, parses |-> FALSE, value |-> JUndefined]
BadBody == [present |-> TRUE, parses |-> FALSE, value |-> JUndefined]
JsonBody(v) == [present |-> TRUE, parses |-> TRUE, value |-> v]

\* JSON.stringify: undefined has no JSON text
JSONStringify(v) == IF v.kind = "undefined" THEN NoBody ELSE JsonBody(v)

UndefinedStatus == 0
UndefinedHeaders == "undefined"

Response(st, h, b) == [status |-> st, headers |-> h, body |-> b]
NoResponse == Response(UndefinedStatus, UndefinedHeaders, NoBody)
\* Response.ok
Ok(response) == response.status >= 200 /\ response.status <= 299

(***************************************************************************)
(* Inputs: what callers pass and what the transport answers.               *)
(***************************************************************************)
UpdatedAtValues ==
    {NoUpdatedAt, ([ty |-> "string", ms |-> 0, valid |-> FALSE]), ([ty |-> "number", ms |-> 0, valid |-> TRUE]), ([ty |-> "number", ms |-> 1000, valid |-> TRUE]),
     DateString(1000), DateString(2000)}

\* SafeFetchOptions as passed by a caller; `keys` are the keys the object has.
\* A key the object does not have carries no value.
OptionsOver(retryCounts, retryDelays, fallbackDatas, fallbackUrls, strategies, bodies) ==
    [keys : {{"retryCount", "retryDelay", "conflictResolution"}},
     retryCount : retryCounts, retryDelay : retryDelays, timeout : {0},
     fallbackData : fallbackDatas, fallbackUrl : fallbackUrls,
     conflictResolution : strategies, body : bodies]
    \cup
    [keys : {{"retryCount", "retryDelay"}},
     retryCount : retryCounts, retryDelay : retryDelays, timeout : {0},
     fallbackData : fallbackDatas, fallbackUrl : fallbackUrls,
     conflictResolution : {"undefined"}, body : bodies]



\* what the transport answers
Responses ==
    {Response(201, "h1", JsonBody(JObject("server", NoUpdatedAt))),
     Response(200, "h2", BadBody),
     Response(500, "h1", BadBody),
     Response(409, "h2", BadBody),
     Response(409, "h2", JsonBody(JObject("server", DateString(1000))))}

defaultOptions ==
    [keys |-> {"retryCount", "retryDelay", "timeout", "conflictResolution"},
     retryCount |-> 3, retryDelay |-> 1000, timeout |-> 10000,
     fallbackData |-> JUndefined, fallbackUrl |-> "",
     conflictResolution |-> "timestamp", body |-> NoBody]

\* { ...SafeFetch.defaultOptions, ...options }
MergeOptions(d, o) ==
    [keys |-> d.keys \cup o.keys,
     retryCount |-> IF "retryCount" \in o.keys THEN o.retryCount ELSE d.retryCount,
     retryDelay |-> IF "retryDelay" \in o.keys THEN o.retryDelay ELSE d.retryDelay,
     timeout |-> IF "timeout" \in o.keys THEN o.timeout ELSE d.timeout,
     fallbackData |-> o.fallbackData,
     fallbackUrl |-> o.fallbackUrl,
     conflictResolution |-> IF "conflictResolution" \in o.keys
                            THEN o.conflictResolution ELSE d.conflictResolution,
     body |-> o.body]

(***************************************************************************)
(* The Exception Log.                                                      *)
(***************************************************************************)
maxLogEntries == 1000

\* { ...extraInfo, component: context }
LogContext(component, url, attempt, options) ==
    [component |-> component, url |-> url, attempt |-> attempt, options |-> options]

\* the log that evicts one write too early
LogWriteEvictsEarly(entries, thrown, context) ==
    LET pushed == Append(entries, [error |-> thrown,
                                   type |-> determineExceptionType(thrown),
                                   context |-> context])
    IN  IF Len(pushed) >= maxLogEntries THEN Tail(pushed) ELSE pushed

\* ExceptionLogger.log: the entries after the call
LogWrite(entries, thrown, context) ==
    LET error == IF thrown.isError THEN thrown
                 ELSE MkError("Error", thrown.message)
        logEntry == [error |-> error,
                     type |-> determineExceptionType(error),
                     context |-> context]
        pushed == Append(entries, logEntry)
    IN  IF Len(pushed) > maxLogEntries THEN Tail(pushed) ELSE pushed

(***************************************************************************)
(* Exceptions that reach a dispatch, handlers, and the keys of the         *)
(* registry's map.                                                         *)
(***************************************************************************)
msg_boom == <<"b","o","o","m">>

\* new TypeError('Cannot read property of null'), as in the repository's tests
NullReference == MkError("TypeError", (<<"C","a","n","n","o","t"," ","r","e","a","d"," ","p","r","o","p","e","r","t","y"," ","o","f"," ","n","u","l","l">>))
OutOfMemory == MkError("Error", (<<"o","u","t"," ","o","f"," ","m","e","m","o","r","y">>))
\* thrown values that are not Error objects: a string, and null
RawString(chars) == [isError |-> FALSE, name |-> "string", message |-> chars]
JsNull == [isError |-> FALSE, name |-> "null", message |-> sub_null]

\* whether `error.constructor` can be read: it throws a TypeError on null

\* error.constructor, by the name of the function
Constructor(v) ==
    IF ~v.isError THEN (IF v.name = "number" THEN "Number" ELSE "String")
    ELSE CASE v.name = "TypeError" -> "TypeError"
           [] v.name = "RangeError" -> "RangeError"
           [] v.name = "SyntaxError" -> "SyntaxError"
           [] v.name = "ReferenceError" -> "ReferenceError"
           [] v.name = "AbortError" -> "DOMException"
           [] OTHER -> "Error"


\* a handler function: what it is and what it does when called
Handler(id, throws) == [id |-> id, throws |-> throws]
\* `undefined` in a slot of type ExceptionHandler | undefined
NoHandler == Handler("undefined", NoError)
HandlerError == MkError("Error", msg_boom)
Handlers == {Handler("returns", NoError), Handler("throws", HandlerError)}

\* the keys of the registry's map: a constructor function or an ExceptionType
ConstructorKey(n) == [of |-> "constructor", name |-> n]
KindKey(ty) == [of |-> "ExceptionType", name |-> ty]

\* the optional third argument of a dispatch
NoExtraInfo == [given |-> FALSE, extra |-> "undefined"]




(***************************************************************************)
(* State.                                                                  *)
(*                                                                         *)
(* calls[s] is the activation record of the SafeFetch.fetch call in slot   *)
(* s: its position (pc), its locals, and counters of what it has done.     *)
(*   pc: idle             not called yet                                   *)
(*       fetching         awaiting fetch(url) of a primary attempt   (:65) *)
(*       reading          awaiting response.json() of an ok response (:72) *)
(*       conflict_reading awaiting response.json() in handleConflict(:128) *)
(*       reissuing        awaiting the client-wins fetch            (:137) *)
(*       reissue_reading  awaiting clientResponse.json()            (:138) *)
(*       delaying         awaiting this.delay(delay)                 (:92) *)
(*       fb_fetching      awaiting fetch(fallbackUrl)                (:99) *)
(*       fb_reading       awaiting response.json() of the fallback  (:101) *)
(*       done             the returned promise is resolved with `result`   *)
(*       rejected         the returned promise is rejected                 *)
(* timers is the set of armed timeout timers <<slot, attempt>>.            *)
(* logEntries is ExceptionLogger.logEntries.                               *)
(* handlers is ExceptionRegistry.handlers, a Map from key to entry.        *)
(* dispatch describes the last call of a handleException: who was called,  *)
(* with what, which handlers it invoked and whether it returned or threw.  *)
(* classification holds an exception and what the registry's classifier    *)
(* made of it.                                                             *)
(* wrapped describes the last call of a function made by wrapSync or       *)
(* wrapAsync.                                                              *)
(* isInitialized is the interceptor singleton's flag, listeners the        *)
(* listeners installed on window, in the order they were added;            *)
(* initializeCalls counts the calls of initialize().                       *)
(* isMonitoring is MemoryGuard's flag; config is ErrorProtectionConfig's   *)
(* singleton (instance null or not, and its options); access is the last   *)
(* SafeAccessor call with its target after the call; boundary is the       *)
(* ErrorBoundary's state and the number of onError calls.                  *)
(***************************************************************************)
VARIABLES calls, timers, logEntries, handlers, dispatch,
          classification, wrapped, isInitialized, listeners, initializeCalls,
          isMonitoring, config, access, boundary

vars == <<calls, timers, logEntries, handlers, dispatch,
          classification, wrapped, isInitialized, listeners, initializeCalls,
          isMonitoring, config, access, boundary>>

Slots == {"a", "b"}


IdleCall ==
    [pc |-> "idle", url |-> "", options |-> defaultOptions,
     mergedOptions |-> defaultOptions, attempt |-> 0,
     lastError |-> NoError, lastStatus |-> UndefinedStatus,
     lastHeaders |-> UndefinedHeaders,
     response |-> NoResponse, clientResponse |-> NoResponse,
     fallbackResponse |-> NoResponse,
     result |-> [data |-> JUndefined, error |-> NoError,
                 status |-> UndefinedStatus, headers |-> UndefinedHeaders],
     \* what the call has done so far
     primaryCalls |-> 0, reissues |-> <<>>, fallbackCalls |-> 0,
     delays |-> <<>>, doneAt |-> "", lastFailure |-> NoError,
     \* the response the last failed attempt received, if it received one
     lastFailureResponse |-> NoResponse]

Init ==
    /\ calls = [s \in Slots |-> IdleCall]
    /\ timers = {}
    /\ logEntries = <<>>
    /\ handlers = [k \in {} |-> NoHandler]
    /\ dispatch = [count |-> 0, by |-> "", error |-> NoError, context |-> "",
                   extraInfo |-> NoExtraInfo, invoked |-> <<>>, outcome |-> ""]
    /\ classification = ([error |-> NoError, registryType |-> ""])
    /\ wrapped = [by |-> "", pc |-> "", context |-> "",
                  threw |-> FALSE, thrown |-> NoError, outcome |-> ""]
    /\ isInitialized = FALSE
    /\ listeners = <<>>
    /\ initializeCalls = 0
    /\ isMonitoring = FALSE
    /\ config = [instance |-> FALSE, options |-> <<>>]
    /\ access = [op |-> "", obj |-> <<>>, path |-> <<>>, threw |-> FALSE, returned |-> <<>>]
    /\ boundary = [hasError |-> FALSE, error |-> NoError, onErrorCalls |-> 0]

\* the part of the state one call can change
World(s) == [c |-> calls[s], log |-> logEntries, timers |-> timers]

\* the locals of fetch kept in one place shared by every call
CommitShared(s, w) ==
    /\ calls' = [t \in Slots |-> w.c]
    /\ logEntries' = w.log
    /\ timers' = w.timers
    /\ UNCHANGED <<handlers, dispatch, classification, wrapped, isInitialized, listeners, initializeCalls,
                   isMonitoring, config, access, boundary>>

\* the end of a step of call s: its locals, the log and the timers
Commit(s, w) ==
    /\ calls' = [calls EXCEPT ![s] = w.c]
    /\ logEntries' = w.log
    /\ timers' = w.timers
    /\ UNCHANGED <<handlers, dispatch, classification, wrapped, isInitialized, listeners, initializeCalls,
                   isMonitoring, config, access, boundary>>

(***************************************************************************)
(* SafeFetch.fetch, piece by piece.                                        *)
(***************************************************************************)
\* new Error(`HTTP error! status: ${response.status}`)
HttpError(status) == MkError("Error", (<<"H","T","T","P"," ","e","r","r","o","r","!"," ","s","t","a","t","u","s",":"," ">>) \o NumberToString(status))

\* the loop with its bound off by one
WhileConditionStrict(attempt, retryCount) == attempt < retryCount

\* while (attempt <= retryCount)
WhileCondition(attempt, retryCount) == attempt <= retryCount


\* the backoff with the exponent taken after the increment
BackoffDelayLate(retryDelay, attempt) == retryDelay * 2^attempt

\* retryDelay * Math.pow(2, attempt - 1), after attempt++
BackoffDelay(retryDelay, attempt) == retryDelay * 2^(attempt - 1)

\* a return statement; doneAt names which one
Return(w, stage, result) ==
    [w EXCEPT !.c.pc = "done", !.c.doneAt = stage, !.c.result = result]

\* the success result with a literal status
SuccessResultLiteral(response, data) ==
    [data |-> data, error |-> NoError, status |-> 200, headers |-> response.headers]

\* { data, error: undefined, status: response.status, headers: response.headers }
SuccessResult(response, data) ==
    [data |-> data, error |-> NoError,
     status |-> response.status, headers |-> response.headers]

\* the conflict result with the status of the 409 response
ConflictResultRaw(response, resolvedData) ==
    [data |-> resolvedData, error |-> NoError,
     status |-> response.status, headers |-> response.headers]

\* { data: resolvedData, error: undefined, status: 200, headers: response.headers }
ConflictResult(response, resolvedData) ==
    [data |-> resolvedData, error |-> NoError,
     status |-> 200, headers |-> response.headers]

\* the failure result that hides the error behind the fallback data
FailureResultMasked(fallbackData, lastError, lastStatus, lastHeaders) ==
    [data |-> fallbackData,
     error |-> IF fallbackData # JUndefined THEN NoError ELSE lastError,
     status |-> lastStatus, headers |-> lastHeaders]

\* { data: fallbackData, error: lastError, status: lastStatus, headers: lastHeaders }
\* and { data: undefined, error: lastError, ... }
FailureResult(fallbackData, lastError, lastStatus, lastHeaders) ==
    [data |-> fallbackData, error |-> lastError,
     status |-> lastStatus, headers |-> lastHeaders]

\* the two return statements that end a call whose attempts all failed
ReturnFailure(w) ==
    IF w.c.mergedOptions.fallbackData # JUndefined
    THEN Return(w, "fallbackData",
                FailureResult(w.c.mergedOptions.fallbackData,
                              w.c.lastError, w.c.lastStatus, w.c.lastHeaders))
    ELSE Return(w, "failure",
                FailureResult(JUndefined,
                              w.c.lastError, w.c.lastStatus, w.c.lastHeaders))

\* the fallback stage entered without looking at fallbackUrl
FallbackConfiguredAlways(fallbackUrl) == TRUE

\* if (fallbackUrl): the empty string is falsy
FallbackConfigured(fallbackUrl) == fallbackUrl # ""



\* the loop header, evaluated on entry to the loop and after a backoff delay
LoopHead(w, s) ==
    IF WhileCondition(w.c.attempt, w.c.mergedOptions.retryCount)
    THEN \* arm the attempt's timer and issue the request
         [w EXCEPT !.c.pc = "fetching", !.c.primaryCalls = @ + 1,
                   !.timers = @ \cup {<<s, w.c.attempt>>}]
    ELSE \* after the loop: the fallback URL if one is configured
         IF FallbackConfigured(w.c.mergedOptions.fallbackUrl)
         THEN [w EXCEPT !.c.pc = "fb_fetching", !.c.fallbackCalls = @ + 1]
         ELSE ReturnFailure(w)

\* attempt++ and the backoff that end a failed iteration; `failure` is what
\* made the iteration fail
EndIteration(w, s, failure) ==
    LET next == w.c.attempt + 1
        \* `response` and `clientResponse` go out of scope with the iteration
        f == [w EXCEPT !.c.attempt = next, !.c.lastFailure = failure,
                       !.c.lastFailureResponse = w.c.response,
                       !.c.response = NoResponse, !.c.clientResponse = NoResponse]
    IN  IF (next <= w.c.mergedOptions.retryCount)
        THEN [f EXCEPT !.c.pc = "delaying",
                       !.c.delays = Append(@, BackoffDelay(w.c.mergedOptions.retryDelay, next))]
        ELSE LoopHead(f, s)

\* catch (error) of the loop body
CatchPrimary(w, s, error) ==
    EndIteration(
        [w EXCEPT !.c.lastError = error,
                  !.log = LogWrite(@, error,
                              LogContext("safe-fetch", w.c.url, w.c.attempt, w.c.options))],
        s, error)

\* a non-success status that ends the iteration without recording an error
HttpFailureSilent(w, s) == EndIteration(w, s, HttpError(w.c.response.status))

\* lastError = new Error(`HTTP error! ...`) for a response that was not returned
HttpFailure(w, s) ==
    EndIteration([w EXCEPT !.c.lastError = HttpError(w.c.response.status)],
                 s, HttpError(w.c.response.status))

\* if (resolvedData !== undefined) return { data: resolvedData, status: 200, ... }
Resolved(w, s, resolvedData) ==
    IF resolvedData # JUndefined
    THEN Return(w, "conflict", ConflictResult(w.c.response, resolvedData))
    ELSE HttpFailure(w, s)

\* catch (error) of handleConflict: log and return undefined
ConflictCatch(w, s, error) ==
    Resolved(
        [w EXCEPT !.log = LogWrite(@, error,
                      LogContext("safe-fetch-conflict", w.c.url, (-1), w.c.mergedOptions))],
        s, JUndefined)

\* case 'timestamp' of handleConflict
TimestampResolution(clientData, serverData) ==
    IF /\ (clientData.kind = "object") /\ (serverData.kind = "object")
       /\ Truthy(clientData.updatedAt) /\ Truthy(serverData.updatedAt)
    THEN \* new Date(a) > new Date(b): false when either is an Invalid Date
         IF (clientData.updatedAt.valid /\ serverData.updatedAt.valid
             /\ clientData.updatedAt.ms > serverData.updatedAt.ms)
         THEN clientData ELSE serverData
    ELSE serverData

(***************************************************************************)
(* Actions.                                                                *)
(***************************************************************************)
\* SafeFetch.fetch(url, options) up to its first await
Fetch(s, url, options) ==
    /\ calls[s].pc = "idle"
    /\ LET w == World(s)
           entered == [w EXCEPT !.c.url = url, !.c.options = options,
                                !.c.mergedOptions = MergeOptions(defaultOptions, options),
                                !.c.attempt = 0]
       IN  Commit(s, LoopHead(entered, s))

\* the transport answers a primary request with a response
PrimaryResponds(s, response) ==
    /\ calls[s].pc = "fetching"
    /\ LET w == World(s)
           got == [w EXCEPT !.timers = @ \ {<<s, w.c.attempt>>},
                            !.c.response = response,
                            !.c.lastStatus = response.status,
                            !.c.lastHeaders = response.headers]
       IN  Commit(s,
             IF Ok(response)
             THEN [got EXCEPT !.c.pc = "reading"]
             ELSE IF response.status = 409
                     /\ got.c.mergedOptions.conflictResolution # "undefined"
             THEN [got EXCEPT !.c.pc = "conflict_reading"]
             ELSE HttpFailure(got, s))

\* the transport fails a primary request
PrimaryRejects(s, error) ==
    /\ calls[s].pc = "fetching"
    /\ Commit(s, CatchPrimary(World(s), s, error))

\* one controller shared by the attempts of a call: abort() cancels whichever
\* primary request is pending
AbortsPending(c, k) == c.pc = "fetching"

\* controller.abort() of attempt k cancels a request: the controller is made
\* inside the loop body, so only the fetch of attempt k holds its signal
Aborts(c, k) == c.pc = "fetching" /\ c.attempt = k

\* a timeout timer whose abort the pending request ignores
TimeoutFiresIgnored(s, k) ==
    /\ <<s, k>> \in timers
    /\ Commit(s, [World(s) EXCEPT !.timers = @ \ {<<s, k>>}])

\* a timeout timer fires: controller.abort() of the attempt that armed it
TimeoutFires(s, k) ==
    /\ <<s, k>> \in timers
    /\ LET w == [World(s) EXCEPT !.timers = @ \ {<<s, k>>}]
       IN  Commit(s,
             IF Aborts(w.c, k)
             THEN CatchPrimary(w, s, AbortError)
             ELSE w)

\* response.json() of an ok primary response settles
ReadBody(s) ==
    /\ calls[s].pc = "reading"
    /\ LET w == World(s)
           body == w.c.response.body
       IN  Commit(s,
             IF body.parses
             THEN Return(w, "primary", SuccessResult(w.c.response, body.value))
             ELSE CatchPrimary(w, s, JsonSyntaxError))

\* the re-issue sent with the server's body
ReissueServerBody(w, clientData, serverData) ==
    [w EXCEPT !.c.pc = "reissuing",
              !.c.reissues = Append(@, [attempt |-> w.c.attempt,
                                        body |-> JSONStringify(serverData)])]

\* case 'client-wins': fetch(url, { ...options, body: JSON.stringify(clientData) })
Reissue(w, clientData, serverData) ==
    [w EXCEPT !.c.pc = "reissuing",
              !.c.reissues = Append(@, [attempt |-> w.c.attempt,
                                        body |-> JSONStringify(clientData)])]

\* handleConflict from `await response.json()` to its next await or return
ConflictRead(s) ==
    /\ calls[s].pc = "conflict_reading"
    /\ LET w == World(s)
           server == w.c.response.body
           client == w.c.mergedOptions.body
           clientData == IF client.present THEN client.value ELSE JUndefined
           strategy == w.c.mergedOptions.conflictResolution
       IN  Commit(s,
             IF ~server.parses \/ (client.present /\ ~client.parses)
             THEN ConflictCatch(w, s, JsonSyntaxError)
             ELSE CASE strategy = "server-wins" -> Resolved(w, s, server.value)
                    [] strategy = "client-wins" -> Reissue(w, clientData, server.value)
                    [] strategy = "timestamp" ->
                         Resolved(w, s, TimestampResolution(clientData, server.value))
                    [] OTHER -> Resolved(w, s, server.value))

\* the transport answers the client-wins re-issue
ReissueResponds(s, response) ==
    /\ calls[s].pc = "reissuing"
    /\ LET w == [World(s) EXCEPT !.c.clientResponse = response]
       IN  Commit(s,
             IF Ok(response)
             THEN [w EXCEPT !.c.pc = "reissue_reading"]
             ELSE Resolved(w, s, JUndefined))

\* the transport fails the client-wins re-issue
ReissueRejects(s, error) ==
    /\ calls[s].pc = "reissuing"
    /\ Commit(s, ConflictCatch(World(s), s, error))

\* clientResponse.json(), returned unawaited by handleConflict, settles
ReissueRead(s) ==
    /\ calls[s].pc = "reissue_reading"
    /\ LET w == World(s)
           body == w.c.clientResponse.body
       IN  Commit(s,
             IF body.parses
             THEN Resolved(w, s, body.value)
             ELSE CatchPrimary(w, s, JsonSyntaxError))

\* the backoff timer fires
DelayElapses(s) ==
    /\ calls[s].pc = "delaying"
    /\ Commit(s, LoopHead(World(s), s))

\* the transport answers the fallback request
FallbackResponds(s, response) ==
    /\ calls[s].pc = "fb_fetching"
    /\ LET w == [World(s) EXCEPT !.c.fallbackResponse = response]
       IN  Commit(s,
             IF Ok(response)
             THEN [w EXCEPT !.c.pc = "fb_reading"]
             ELSE ReturnFailure(w))

\* the fallback block without its catch: the error leaves fetch
CatchFallbackMissing(w, error) == [w EXCEPT !.c.pc = "rejected"]

\* catch (error) of the fallback block
CatchFallback(w, error) ==
    ReturnFailure(
        [w EXCEPT !.log = LogWrite(@, error,
                      LogContext("safe-fetch-fallback", w.c.mergedOptions.fallbackUrl,
                                 (-1), w.c.options))])

\* the transport fails the fallback request
FallbackRejects(s, error) ==
    /\ calls[s].pc = "fb_fetching"
    /\ Commit(s, CatchFallback(World(s), error))

\* response.json() of an ok fallback response settles
FallbackRead(s) ==
    /\ calls[s].pc = "fb_reading"
    /\ LET w == World(s)
           body == w.c.fallbackResponse.body
       IN  Commit(s,
             IF body.parses
             THEN Return(w, "fallbackUrl", SuccessResult(w.c.fallbackResponse, body.value))
             ELSE CatchFallback(w, JsonSyntaxError))

(***************************************************************************)
(* One SafeFetch.fetch call against an arbitrary transport.                *)
(***************************************************************************)
Caller == "a"

Next ==
    \/ \E o \in OptionsOver(0..MaxRetry, ({1000}),
                            {JUndefined, JObject("fallback", NoUpdatedAt)},
                            ({"", "/backup"}),
                            {"server-wins", "client-wins", "undefined"},
                            {NoBody, BadBody,
                             JsonBody(JObject("client", DateString(2000)))}) :
          Fetch(Caller, "/api", o)
    \/ \E r \in Responses : PrimaryResponds(Caller, r)
    \/ \E e \in TransportRejections : PrimaryRejects(Caller, e)
    \/ \E k \in 0..MaxRetry : TimeoutFires(Caller, k)
    \/ ReadBody(Caller)
    \/ ConflictRead(Caller)
    \/ \E r \in Responses : ReissueResponds(Caller, r)
    \/ \E e \in TransportRejections : ReissueRejects(Caller, e)
    \/ ReissueRead(Caller)
    \/ DelayElapses(Caller)
    \/ \E r \in Responses : FallbackResponds(Caller, r)
    \/ \E e \in TransportRejections : FallbackRejects(Caller, e)
    \/ FallbackRead(Caller)

Spec == Init /\ [][Next]_vars

TypeOK ==
    /\ \A s \in Slots : calls[s].attempt \in 0..(MaxRetry + 1)
    /\ Len(logEntries) <= maxLogEntries

(***************************************************************************)
(* Properties of the request engine.                                       *)
(***************************************************************************)
Started(s) == calls[s].pc # "idle"
Done(s) == calls[s].pc = "done"
\* the call ended in one of the two returns that follow the fallback stage
Failed(s) == Done(s) /\ calls[s].doneAt \in {"failure", "fallbackData"}
\* the primary attempts are over and the call is in or past the fallback stage
PastPrimary(s) ==
    \/ calls[s].pc \in {"fb_fetching", "fb_reading"}
    \/ Done(s) /\ calls[s].doneAt \in {"failure", "fallbackData", "fallbackUrl"}

\* C1: SafeFetch.fetch never rejects, whatever the transport does on the
\* primary URL, the client-wins re-issue and the fallback URL; a call that
\* ends after failures resolves to a result that carries the last failure.
C1_NeverThrows ==
    \A s \in Slots :
        /\ calls[s].pc # "rejected"
        /\ Failed(s) => calls[s].result.error.isError

\* a call that met a failed re-issue and a failed fallback request has resolved
C1_Witness ==
    /\ Failed(Caller)
    /\ Len(calls[Caller].reissues) >= 1
    /\ calls[Caller].fallbackCalls = 1
    /\ \E i \in 1..Len(logEntries) :
         logEntries[i].context.component = "safe-fetch-fallback"

\* C2 as stated: when every primary call fails, exactly retryCount + 1
\* transport calls have been made to the primary URL when the call moves on
\* to the fallback stage.
C2_PrimaryCallsAsStated ==
    \A s \in Slots :
        PastPrimary(s) =>
            calls[s].primaryCalls + Len(calls[s].reissues)
                = calls[s].mergedOptions.retryCount + 1

\* C2 amended: when every primary attempt fails, the retry loop has issued
\* exactly retryCount + 1 requests to the primary URL when the call moves on
\* to the fallback stage; the only other requests to the primary URL are
\* client-wins re-issues, at most one per attempt, and none under another
\* conflict strategy.
C2_PrimaryAttempts ==
    \A s \in Slots :
        PastPrimary(s) =>
            /\ calls[s].primaryCalls = calls[s].mergedOptions.retryCount + 1
            /\ Len(calls[s].reissues) <= calls[s].primaryCalls
            /\ calls[s].mergedOptions.conflictResolution # "client-wins"
                 => Len(calls[s].reissues) = 0

\* retryCount = 2 against a failing transport: three calls, then the fallback
C2_Witness ==
    /\ Failed(Caller)
    /\ calls[Caller].mergedOptions.retryCount = 2
    /\ calls[Caller].primaryCalls = 3
    /\ Len(calls[Caller].reissues) = 0

\* C3: the k-th backoff delay, taken immediately before primary attempt k,
\* is retryDelay * 2^(k-1) for k in 1..retryCount; attempt 0 starts with no
\* delay and no delay follows the last primary attempt.
C3_Backoff ==
    \A s \in Slots :
        LET c == calls[s] IN
        /\ \A k \in 1..Len(c.delays) :
             c.delays[k] = c.mergedOptions.retryDelay * 2^(k - 1)
        /\ Len(c.delays) <= c.mergedOptions.retryCount
        /\ c.pc \in {"delaying", "fetching", "reading", "conflict_reading",
                     "reissuing", "reissue_reading"}
             => Len(c.delays) = c.attempt
        /\ c.pc = "fetching" => c.primaryCalls = Len(c.delays) + 1
        /\ PastPrimary(s) => Len(c.delays) = c.mergedOptions.retryCount

\* two backoff delays were taken and the call went on to the fallback stage
C3_Witness ==
    /\ PastPrimary(Caller)
    /\ Len(calls[Caller].delays) = 2
    /\ calls[Caller].delays[2] = 2 * calls[Caller].delays[1]

\* C4: with fallbackData configured and a transport that always fails, the
\* result has data = fallbackData and error = the failure of the last
\* primary attempt.
C4_FallbackData ==
    \A s \in Slots :
        LET c == calls[s] IN
        (Done(s) /\ c.doneAt \notin {"primary", "conflict", "fallbackUrl"}
                 /\ c.mergedOptions.fallbackData # JUndefined)
            => /\ c.doneAt = "fallbackData"
               /\ c.result.data = c.mergedOptions.fallbackData
               /\ c.result.error.isError
               /\ c.result.error = c.lastFailure

\* a call with fallback data whose last primary attempt got status 500 after
\* an earlier failure was logged
C4_Witness ==
    /\ Done(Caller) /\ calls[Caller].doneAt = "fallbackData"
    /\ calls[Caller].result.data = JObject("fallback", NoUpdatedAt)
    /\ calls[Caller].result.error = HttpError(500)
    /\ Len(logEntries) >= 1

\* what the call has issued so far: requests, re-issues, delays
Issued(c) == <<c.primaryCalls, c.reissues, c.fallbackCalls, c.delays>>

\* options.body ? JSON.parse(options.body.toString()) : undefined
ClientData(c) ==
    IF c.mergedOptions.body.present THEN c.mergedOptions.body.value ELSE JUndefined

\* both bodies of a conflict can be read
BodiesParse(c) ==
    /\ c.response.body.parses
    /\ c.mergedOptions.body.present => c.mergedOptions.body.parses

\* C5: when a primary attempt gets a success-status response whose body
\* parses, the call returns that payload with error absent and the status
\* and headers of that response, and issues nothing more: no request, no
\* delay, no fallback step, no log record, whatever failed before.
C5_SuccessShortCircuit ==
    [][\A s \in Slots :
         LET c == calls[s]
             d == calls'[s]
         IN  /\ (c.pc = "reading" /\ c.response.body.parses /\ d # c)
                  => /\ d.pc = "done" /\ d.doneAt = "primary"
                     /\ d.result = [data |-> c.response.body.value,
                                    error |-> NoError,
                                    status |-> c.response.status,
                                    headers |-> c.response.headers]
                     /\ Issued(d) = Issued(c)
                     /\ logEntries' = logEntries
             /\ (c.pc = "fetching" /\ d.pc = "reading") => Ok(d.response)
             /\ c.pc = "done" => d = c
      ]_vars

\* a success on the third attempt, after two failures
C5_Witness ==
    /\ Done(Caller) /\ calls[Caller].doneAt = "primary"
    /\ calls[Caller].attempt = 2
    /\ calls[Caller].result.status = 201
    /\ calls[Caller].lastError.isError

\* C6: when a primary attempt gets status 409 and conflict resolution yields
\* a value, the call returns at once data = that value, error absent and
\* status 200, and issues nothing more.
C6_ConflictResolved ==
    [][\A s \in Slots :
         LET c == calls[s]
             d == calls'[s]
             strategy == c.mergedOptions.conflictResolution
         IN  /\ (c.pc = "conflict_reading" /\ BodiesParse(c) /\ d # c
                    /\ strategy \in {"server-wins", "timestamp"})
                  => /\ d.pc = "done" /\ d.doneAt = "conflict"
                     /\ d.result.data \in {c.response.body.value, ClientData(c)}
                     /\ strategy = "server-wins"
                          => d.result.data = c.response.body.value
                     /\ d.result.error = NoError
                     /\ d.result.status = 200
                     /\ d.result.headers = c.response.headers
                     /\ Issued(d) = Issued(c)
             /\ (c.pc = "reissue_reading" /\ c.clientResponse.body.parses /\ d # c)
                  => /\ d.pc = "done" /\ d.doneAt = "conflict"
                     /\ d.result = [data |-> c.clientResponse.body.value,
                                    error |-> NoError, status |-> 200,
                                    headers |-> c.response.headers]
                     /\ Issued(d) = Issued(c)
             /\ (d.pc = "done" /\ d.doneAt = "conflict")
                  => c.response.status = 409 /\ d.result.status = 200
             /\ c.pc = "done" => d = c
      ]_vars

\* a 409 on the second attempt resolved to the server's body
C6_Witness ==
    /\ Done(Caller) /\ calls[Caller].doneAt = "conflict"
    /\ calls[Caller].attempt = 1
    /\ calls[Caller].response.status = 409
    /\ calls[Caller].result.status = 200
    /\ calls[Caller].result.data = JObject("server", DateString(1000))

(***************************************************************************)
(* handleConflict's 'timestamp' strategy over every pair of bodies: one    *)
(* call without retries, answered 409.                                     *)
(***************************************************************************)



NextTimestamp ==
    \/ \E o \in OptionsOver({0}, ({1000}), {JUndefined}, {""}, {"timestamp"},
                            {NoBody, BadBody, JsonBody(([kind |-> "null", origin |-> "", updatedAt |-> NoUpdatedAt]))}
                            \cup {JsonBody(JObject("client", u)) : u \in UpdatedAtValues}) :
          Fetch(Caller, "/api", o)
    \/ \E b \in {BadBody, JsonBody(([kind |-> "null", origin |-> "", updatedAt |-> NoUpdatedAt]))}
                 \cup {JsonBody(JObject("server", u)) : u \in UpdatedAtValues} :
          PrimaryResponds(Caller, Response(409, "h2", b))
    \/ ConflictRead(Caller)

SpecTimestamp == Init /\ [][NextTimestamp]_vars

\* the body carries an updatedAt field
Carries(v) == v.kind = "object" /\ v.updatedAt.ty # "absent"

\* C7: under 'timestamp' a 409 resolves to the client body when both bodies
\* carry an updatedAt and the client's is chronologically newer, and to the
\* server body in every other case.
C7_TimestampNewerWins ==
    \A s \in Slots :
        LET c == calls[s]
            clientData == ClientData(c)
            serverData == c.response.body.value
            clientNewer ==
                /\ Carries(clientData) /\ Carries(serverData)
                /\ clientData.updatedAt.valid /\ serverData.updatedAt.valid
                /\ clientData.updatedAt.ms > serverData.updatedAt.ms
        IN  (/\ Done(s) /\ c.response.status = 409 /\ BodiesParse(c)
             /\ c.mergedOptions.conflictResolution = "timestamp")
                => /\ c.doneAt = "conflict"
                   /\ c.result.data = IF clientNewer THEN clientData ELSE serverData

(***************************************************************************)
(* Back to the one call against an arbitrary transport.                    *)
(***************************************************************************)
\* C8 as stated: under 'client-wins' a call re-issues at most once, and after
\* a re-issue, whatever its outcome, no further primary attempt is made.
C8_ReissueEndsPrimaryAsStated ==
    \A s \in Slots :
        LET c == calls[s] IN
        /\ Len(c.reissues) <= 1
        /\ Len(c.reissues) = 1
             => /\ c.primaryCalls = c.reissues[1].attempt + 1
                /\ c.pc # "delaying"

\* C8 amended: under 'client-wins' a 409 whose bodies parse causes exactly
\* one re-issue with the client body for that attempt.  A re-issue that
\* succeeds and whose body parses ends the call with that payload.  A
\* re-issue that fails ends the attempt as a failed attempt, and the retry
\* loop goes on as after any other failure: a later attempt that gets a 409
\* re-issues again, once per attempt.
C8_ReissuePerAttempt ==
    [][\A s \in Slots :
         LET c == calls[s]
             d == calls'[s]
             n == Len(d.reissues)
         IN  /\ \A i \in 1..n : d.reissues[i].body = JSONStringify(ClientData(d))
             /\ \A i, j \in 1..n : i < j => d.reissues[i].attempt < d.reissues[j].attempt
             /\ n > 0 => d.mergedOptions.conflictResolution = "client-wins"
             /\ (c.pc = "conflict_reading" /\ BodiesParse(c) /\ d # c
                    /\ c.mergedOptions.conflictResolution = "client-wins")
                  => /\ d.pc = "reissuing"
                     /\ n = Len(c.reissues) + 1
                     /\ d.reissues[n].attempt = c.attempt
                     /\ d.primaryCalls = c.primaryCalls
             /\ (c.pc = "reissuing" /\ d # c)
                  => /\ d.reissues = c.reissues
                     /\ d.primaryCalls = c.primaryCalls
                     /\ IF d.pc = "reissue_reading"
                        THEN Ok(d.clientResponse) /\ d.attempt = c.attempt
                        ELSE /\ d.attempt = c.attempt + 1
                             /\ d.lastError = HttpError(409)
                             /\ d.pc \in {"delaying", "fb_fetching", "done"}
                             /\ d.pc = "delaying" <=> d.attempt <= d.mergedOptions.retryCount
             /\ (c.pc = "reissue_reading" /\ d # c)
                  => /\ d.reissues = c.reissues
                     /\ d.primaryCalls = c.primaryCalls
                     /\ IF c.clientResponse.body.parses
                        THEN /\ d.pc = "done" /\ d.doneAt = "conflict"
                             /\ d.result.data = c.clientResponse.body.value
                        ELSE /\ d.attempt = c.attempt + 1
                             /\ d.lastError = JsonSyntaxError
      ]_vars

\* the re-issue of attempt 0 failed and attempt 1 re-issued again
C8_Witness ==
    /\ Len(calls[Caller].reissues) = 2
    /\ calls[Caller].reissues[1].attempt = 0
    /\ calls[Caller].reissues[2].attempt = 1
    /\ calls[Caller].reissues[2].body = JsonBody(JObject("client", DateString(2000)))
    /\ calls[Caller].primaryCalls = 2

\* C9: every failed primary attempt, by a thrown error or by a non-success
\* status, has a record in the Exception Log whose context carries the url,
\* the attempt index and the options of the call.
C9_EveryFailureLogged ==
    \A s \in Slots :
        Started(s) =>
            \A k \in 0..(calls[s].attempt - 1) :
                \E i \in 1..Len(logEntries) :
                    logEntries[i].context =
                        LogContext("safe-fetch", calls[s].url, k, calls[s].options)

\* C10: the fallback URL is requested only after all retryCount + 1 primary
\* attempts have failed and only if fallbackUrl is configured; it is then
\* requested exactly once, with no retry and no backoff, and a success
\* response from it whose body parses is returned as data with error absent.
C10_FallbackUrlOnce ==
    [][\A s \in Slots :
         LET c == calls[s]
             d == calls'[s]
             configured == d.mergedOptions.fallbackUrl # ""
         IN  /\ d.fallbackCalls <= 1
             /\ d.fallbackCalls = 1
                  => /\ configured
                     /\ d.attempt = d.mergedOptions.retryCount + 1
                     /\ d.primaryCalls = d.mergedOptions.retryCount + 1
             /\ (d.pc = "done" /\ d.doneAt \in {"failure", "fallbackData"} /\ configured)
                  => d.fallbackCalls = 1
             /\ d.doneAt = "fallbackUrl" => d.fallbackCalls = 1
             /\ d.fallbackCalls > c.fallbackCalls
                  => d.pc = "fb_fetching" /\ d.delays = c.delays
             /\ c.pc \in {"fb_fetching", "fb_reading"}
                  => /\ d.pc \in {"fb_fetching", "fb_reading", "done"}
                     /\ Issued(d) = Issued(c)
                     /\ d.attempt = c.attempt
             /\ (c.pc = "fb_reading" /\ c.fallbackResponse.body.parses /\ d # c)
                  => /\ d.pc = "done" /\ d.doneAt = "fallbackUrl"
                     /\ d.result = [data |-> c.fallbackResponse.body.value,
                                    error |-> NoError,
                                    status |-> c.fallbackResponse.status,
                                    headers |-> c.fallbackResponse.headers]
      ]_vars

\* three failed primary attempts, then the fallback URL answered
C10_Witness ==
    /\ Done(Caller) /\ calls[Caller].doneAt = "fallbackUrl"
    /\ calls[Caller].primaryCalls = 3
    /\ calls[Caller].fallbackCalls = 1
    /\ calls[Caller].result.error = NoError
    /\ calls[Caller].result.data = JObject("server", NoUpdatedAt)

\* C11: every failure of the fallback-URL attempt, by a thrown error or by a
\* non-success status, appends one log record with context label
\* 'safe-fetch-fallback' and leaves the error, status and headers recorded
\* from the primary attempts unchanged in the returned result.
C11_FallbackFailureLogged ==
    [][\A s \in Slots :
         LET c == calls[s]
             d == calls'[s]
         IN  (/\ c.pc \in {"fb_fetching", "fb_reading"}
              /\ d.pc = "done" /\ d.doneAt \in {"failure", "fallbackData"})
                => /\ Len(logEntries') = Len(logEntries) + 1
                   /\ logEntries'[Len(logEntries')].context.component
                        = "safe-fetch-fallback"
                   /\ d.result.error = c.lastError
                   /\ d.result.status = c.lastStatus
                   /\ d.result.headers = c.lastHeaders
      ]_vars

\* what the last failed primary attempt left: its failure, and the status
\* and headers of the response it received, if it received one
LastAttemptStatus(c) == c.lastFailureResponse.status
LastAttemptHeaders(c) == c.lastFailureResponse.headers

\* C12: when a call ends in failure with no fallback data, the error, the
\* status and the headers of the result all belong to the last primary
\* attempt made; none is left over from an earlier attempt.
C12_ResultOfLastAttempt ==
    \A s \in Slots :
        LET c == calls[s] IN
        (Done(s) /\ c.doneAt = "failure")
            => /\ c.result.error = c.lastFailure
               /\ c.result.status = LastAttemptStatus(c)
               /\ c.result.headers = LastAttemptHeaders(c)

C14_TimeoutIsAFailure ==
    [][\A s \in Slots : \A k \in 0..MaxRetry :
         LET c == calls[s]
             d == calls'[s]
             retryCount == c.mergedOptions.retryCount
         IN  (TimeoutFires(s, k) /\ c.pc = "fetching" /\ c.attempt = k)
                => /\ d.attempt = k + 1
                   /\ d.primaryCalls = c.primaryCalls
                   /\ d.lastError = AbortError
                   /\ d.lastStatus = c.lastStatus
                   /\ <<s, k>> \notin timers'
                   /\ Len(logEntries') = Len(logEntries) + 1
                   /\ logEntries'[Len(logEntries')].context
                        = LogContext("safe-fetch", c.url, k, c.options)
                   /\ IF k + 1 <= retryCount
                      THEN /\ d.pc = "delaying"
                           /\ d.delays = Append(c.delays, c.mergedOptions.retryDelay * 2^k)
                           /\ d.fallbackCalls = 0
                      ELSE /\ d.delays = c.delays
                           /\ IF c.mergedOptions.fallbackUrl # ""
                              THEN d.pc = "fb_fetching" /\ d.fallbackCalls = 1
                              ELSE d.pc = "done" /\ d.result.error = AbortError
                   \* the same continuation as after a rejected request
                   /\ <<d.pc, d.attempt, Issued(d)>>
                        = LET r == CatchPrimary(World(s), s, NetworkFailure).c
                          IN  <<r.pc, r.attempt, Issued(r)>>
      ]_vars

\* the timer of the second attempt fired after the first attempt was
\* rejected, and the call went on to its third attempt
C14_Witness ==
    /\ calls[Caller].pc = "fetching"
    /\ calls[Caller].attempt = 2
    /\ calls[Caller].lastError = AbortError
    /\ Len(logEntries) = 2
    /\ logEntries[1].error = NetworkFailure
    /\ logEntries[2].error = AbortError
    /\ logEntries[2].type = NETWORK_ERROR

(***************************************************************************)
(* ExceptionRegistry and ExceptionInterceptor.handleException.  Both are   *)
(* synchronous: a call runs to its end in one step.                        *)
(***************************************************************************)
\* a registry keyed by the key's name alone: a constructor and a kind of the
\* same name share one entry
registerHandlerByName(hs, type, handler, severity) ==
    LET same == {k \in DOMAIN hs \cup {type} : k.name = type.name}
    IN  [k \in DOMAIN hs \cup same |->
            IF k \in same THEN [handler |-> handler, severity |-> severity] ELSE hs[k]]

\* this.handlers.set(type, { handler, severity })
registerHandler(hs, type, handler, severity) ==
    [k \in DOMAIN hs \cup {type} |->
        IF k = type THEN [handler |-> handler, severity |-> severity] ELSE hs[k]]

\* this.handlers.delete(type)
unregisterHandler(hs, type) == [k \in DOMAIN hs \ {type} |-> hs[k]]

\* this.handlers.get(type)?.handler
getHandler(hs, type) == IF type \in DOMAIN hs THEN hs[type].handler ELSE NoHandler

\* the registry's classifier with the JSON check ahead of the name checks
mapErrorToExceptionTypeDataFirst(error) ==
    IF Includes(error.message, sub_JSON) THEN DATA_ERROR
    ELSE IF error.name = "SyntaxError" THEN SYNTAX_ERROR
    ELSE GENERAL_ERROR

\* the registry's own classifier
mapErrorToExceptionType(error) ==
    IF error.name = "TypeError" THEN
        IF Includes(error.message, sub_null) \/ Includes(error.message, sub_undefined)
        THEN NULL_POINTER
        ELSE IF Includes(error.message, sub_is_not_a_function)
        THEN TYPE_ERROR
        ELSE GENERAL_ERROR
    ELSE IF error.name = "RangeError" THEN RANGE_ERROR
    ELSE IF error.name = "SyntaxError" THEN SYNTAX_ERROR
    ELSE IF error.name = "ReferenceError" THEN REFERENCE_ERROR
    ELSE IF error.name = "AbortError" THEN NETWORK_ERROR
    ELSE IF \/ Includes(error.message, sub_fetch)
            \/ Includes(error.message, sub_network)
            \/ Includes(error.message, sub_timeout)
    THEN NETWORK_ERROR
    ELSE IF Includes(error.message, sub_JSON) THEN DATA_ERROR
    ELSE IF Includes(error.message, (<<"m","e","m","o","r","y">>)) \/ Includes(error.message, (<<"D","O","M">>))
    THEN RESOURCE_ERROR
    ELSE GENERAL_ERROR

\* { ...extraInfo, component: context }, the context of a record written by
\* ExceptionLogger.log(error, context, extraInfo)
GeneralContext(context, extraInfo) ==
    [k \in (DOMAIN extraInfo \ {"given"}) \cup {"component"} |->
        IF k = "component" THEN context ELSE extraInfo[k]]

\* the failure report written under the context of the original exception
HandlerFailureContextUnlabelled(error, context, extraInfo) ==
    [component |-> context, originalError |-> error,
     originalContext |-> context, originalExtraInfo |-> extraInfo]

\* the context of a 'handler-failure' record
HandlerFailureContext(error, context, extraInfo) ==
    [component |-> "handler-failure", originalError |-> error,
     originalContext |-> context, originalExtraInfo |-> extraInfo]

\* new Error(`Custom handler failed: ${handlerError}`)
HandlerFailed(handlerError) ==
    MkError("Error",
        <<"C","u","s","t","o","m"," ","h","a","n","d","l","e","r"," ",
          "f","a","i","l","e","d",":"," ">>
        \o \* `${handlerError}`: Error.prototype.toString for an Error, the
           \* string itself for a string, "null" for null
           (IF handlerError.isError
            THEN (CASE handlerError.name = "Error" -> <<"E","r","r","o","r">>
                    [] handlerError.name = "TypeError" ->
                          <<"T","y","p","e","E","r","r","o","r">>)
                 \o <<":", " ">> \o handlerError.message
            ELSE handlerError.message))

\* what one handleException call sees and changes
DispatchWorld ==
    [handlers |-> handlers, log |-> logEntries, invoked |-> <<>>, outcome |-> "returned"]

\* handler(error, context, extraInfo)
Invoke(w, handler, error, context, extraInfo) ==
    [w EXCEPT !.invoked = Append(@, [handler |-> handler, error |-> error,
                                     context |-> context, extraInfo |-> extraInfo])]

\* an exception leaves handleException
Propagate(w) == [w EXCEPT !.outcome = "threw"]

\* the failure report sent through the handler registered for its constructor
LogHandlerFailureRedispatched(w, handler, error, context, extraInfo) ==
    LET report == HandlerFailed(handler.throws)
        logged == [w EXCEPT !.log = LogWrite(@, report,
                                     HandlerFailureContext(error, context, extraInfo))]
        again == getHandler(w.handlers, ConstructorKey(Constructor(report)))
    IN  IF again # NoHandler
        THEN Invoke(logged, again, report, "handler-failure", NoExtraInfo)
        ELSE logged

\* catch (handlerError) { ExceptionLogger.log(new Error(...), 'handler-failure', {...}) }
LogHandlerFailure(w, handler, error, context, extraInfo) ==
    [w EXCEPT !.log = LogWrite(@, HandlerFailed(handler.throws),
                               HandlerFailureContext(error, context, extraInfo))]

\* the lookup by kind tried before the lookup by constructor
SelectHandlerKindFirst(hs, error) ==
    LET byKind == getHandler(hs, KindKey(mapErrorToExceptionType(error)))
    IN  IF byKind # NoHandler THEN byKind
        ELSE getHandler(hs, ConstructorKey(Constructor(error)))

\* the registry's lookup: by error.constructor, then by mapErrorToExceptionType
SelectHandler(hs, error) ==
    LET byConstructor == getHandler(hs, ConstructorKey(Constructor(error)))
    IN  IF byConstructor # NoHandler THEN byConstructor
        ELSE getHandler(hs, KindKey(mapErrorToExceptionType(error)))

\* ExceptionRegistry.handleException(error, context, extraInfo)
ExceptionRegistry_handleException(w, error, context, extraInfo) ==
    IF ~(error.isError \/ error.name \in {"string", "number"})
    THEN Propagate(w)       \* error.constructor of null
    ELSE IF /\ getHandler(w.handlers, ConstructorKey(Constructor(error))) = NoHandler
            /\ ~error.isError
    THEN Propagate(w)       \* error.message.includes of a value without message
    ELSE LET handler == SelectHandler(w.handlers, error)
             called == Invoke(w, handler, error, context, extraInfo)
         IN  IF handler = NoHandler THEN w
             ELSE IF handler.throws = NoError THEN called
             ELSE LogHandlerFailure(called, handler, error, context, extraInfo)

\* the default handling left out
DefaultLogSkipped(w, error, context, extraInfo) == w

\* ExceptionLogger.log(error, context, extraInfo), the interceptor's default
DefaultLog(w, error, context, extraInfo) ==
    [w EXCEPT !.log = LogWrite(@, error, GeneralContext(context, extraInfo))]

\* ExceptionInterceptor.handleException(error, context, extraInfo)
ExceptionInterceptor_handleException(w, error, context, extraInfo) ==
    IF ~(error.isError \/ error.name \in {"string", "number"})
    THEN Propagate(w)       \* error.constructor of null
    ELSE LET handler == getHandler(w.handlers, ConstructorKey(Constructor(error)))
             called == Invoke(w, handler, error, context, extraInfo)
         IN  IF handler = NoHandler THEN DefaultLog(w, error, context, extraInfo)
             ELSE IF handler.throws = NoError THEN called
             ELSE DefaultLog(LogHandlerFailure(called, handler, error, context, extraInfo),
                             error, context, extraInfo)

\* the end of a handleException call
Dispatched(by, w, error, context, extraInfo) ==
    /\ logEntries' = w.log
    /\ dispatch' = [count |-> dispatch.count + 1, by |-> by, error |-> error,
                    context |-> context, extraInfo |-> extraInfo,
                    invoked |-> w.invoked, outcome |-> w.outcome]
    /\ UNCHANGED <<calls, timers, handlers, classification, isInitialized, listeners, initializeCalls,
                   isMonitoring, config, access, boundary>>

\* ExceptionRegistry.registerHandler(type, handler, severity)
RegisterHandler(type, handler, severity) ==
    /\ handlers' = registerHandler(handlers, type, handler, severity)
    /\ UNCHANGED <<calls, timers, logEntries, dispatch,
                   classification, wrapped, isInitialized, listeners, initializeCalls,
                   isMonitoring, config, access, boundary>>

\* ExceptionRegistry.unregisterHandler(type)
UnregisterHandler(type) ==
    /\ handlers' = unregisterHandler(handlers, type)
    /\ UNCHANGED <<calls, timers, logEntries, dispatch,
                   classification, wrapped, isInitialized, listeners, initializeCalls,
                   isMonitoring, config, access, boundary>>

\* a caller calls ExceptionRegistry.handleException
RegistryHandleException(error, context, extraInfo) ==
    /\ dispatch.count < MaxDispatch
    /\ Dispatched("registry",
                  ExceptionRegistry_handleException(DispatchWorld, error, context, extraInfo),
                  error, context, extraInfo)
    /\ UNCHANGED wrapped

\* a listener, a wrapper or a caller calls ExceptionInterceptor.handleException
InterceptorHandleException(error, context, extraInfo) ==
    /\ dispatch.count < MaxDispatch
    /\ Dispatched("interceptor",
                  ExceptionInterceptor_handleException(DispatchWorld, error, context, extraInfo),
                  error, context, extraInfo)
    /\ UNCHANGED wrapped

NextDispatch ==
    \/ \E k \in {ConstructorKey("TypeError"), ConstructorKey("Error"),
                 KindKey(NULL_POINTER), KindKey(RESOURCE_ERROR)} :
          \/ \E h \in Handlers : RegisterHandler(k, h, "medium")
          \/ UnregisterHandler(k)
    \/ \E e \in ({NullReference, OutOfMemory, JsNull}), c \in ({"test-context"}), x \in {NoExtraInfo, [given |-> TRUE, extra |-> "info"]} :
         RegistryHandleException(e, c, x)
    \/ \E e \in ({NullReference, OutOfMemory, JsNull}), c \in ({"test-context"}), x \in {NoExtraInfo, [given |-> TRUE, extra |-> "info"]} :
         InterceptorHandleException(e, c, x)

SpecDispatch == Init /\ [][NextDispatch]_vars

\* the step is a call of handleException on `by`
DispatchStep(by) == dispatch'.count = dispatch.count + 1 /\ dispatch'.by = by

\* the one invocation a dispatch is expected to make
Invocation(handler) ==
    <<[handler |-> handler, error |-> dispatch'.error,
       context |-> dispatch'.context, extraInfo |-> dispatch'.extraInfo]>>

\* the records the step appended to the log
Appended == SubSeq(logEntries', Len(logEntries) + 1, Len(logEntries'))

\* the keys under which a handler for the exception can be registered
ConcreteKey(e) ==
    IF e = NullReference THEN ConstructorKey("TypeError") ELSE ConstructorKey("Error")
ClassifiedKey(e) ==
    IF e = NullReference THEN KindKey(NULL_POINTER) ELSE KindKey(RESOURCE_ERROR)

\* C15: ExceptionRegistry.handleException invokes the handler registered
\* under the exception's constructor when there is one, otherwise the handler
\* registered under the kind the exception classifies to; when both are
\* registered only the concrete one is invoked; the invoked handler receives
\* (error, context, extraInfo) unchanged.
C15_RegistryPrecedence ==
    [][(DispatchStep("registry") /\ dispatch'.error.isError)
         => LET e == dispatch'.error IN
            dispatch'.invoked =
                IF ConcreteKey(e) \in DOMAIN handlers
                THEN Invocation(handlers[ConcreteKey(e)].handler)
                ELSE IF ClassifiedKey(e) \in DOMAIN handlers
                THEN Invocation(handlers[ClassifiedKey(e)].handler)
                ELSE <<>>
      ]_vars

\* a TypeError about null, with one handler under TypeError and another
\* under NullPointer: the registry invoked the one under TypeError
C15_Witness ==
    /\ dispatch.by = "registry" /\ dispatch.error = NullReference
    /\ ConstructorKey("TypeError") \in DOMAIN handlers
    /\ KindKey(NULL_POINTER) \in DOMAIN handlers
    /\ handlers[ConstructorKey("TypeError")].handler = Handler("returns", NoError)
    /\ handlers[KindKey(NULL_POINTER)].handler = Handler("throws", HandlerError)
    /\ dispatch.invoked = <<[handler |-> Handler("returns", NoError),
                             error |-> NullReference, context |-> "test-context",
                             extraInfo |-> ([given |-> TRUE, extra |-> "info"])]>>
    /\ logEntries = <<>>

\* C16: ExceptionInterceptor.handleException(e, ctx, extra) invokes with
\* (e, ctx, extra) a handler registered under the kind e classifies to when
\* no handler is registered under e's constructor.
C16_InterceptorKindDispatch ==
    [][(/\ DispatchStep("interceptor") /\ dispatch'.error.isError
        /\ ConcreteKey(dispatch'.error) \notin DOMAIN handlers
        /\ ClassifiedKey(dispatch'.error) \in DOMAIN handlers)
         => dispatch'.invoked
              = Invocation(handlers[ClassifiedKey(dispatch'.error)].handler)
      ]_vars

\* the 'handler-failure' records among the records the step appended
FailureRecords ==
    {i \in 1..Len(Appended) : Appended[i].context.component = "handler-failure"}

C18_NoReentry ==
    [][\A by \in {"registry", "interceptor"} :
         DispatchStep(by)
            => /\ Len(dispatch'.invoked) <= 1
               /\ \A i \in 1..Len(dispatch'.invoked) :
                    dispatch'.invoked[i].error = dispatch'.error
               /\ handlers' = handlers
      ]_vars

\* the handler under TypeError threw while a handler was registered under
\* Error, the constructor of the failure report: only the first was invoked
C18_Witness ==
    /\ dispatch.error = NullReference
    /\ ConstructorKey("Error") \in DOMAIN handlers
    /\ Len(dispatch.invoked) = 1
    /\ dispatch.invoked[1].handler = Handler("throws", HandlerError)
    /\ \E i \in 1..Len(logEntries) :
         /\ logEntries[i].context.component = "handler-failure"
         /\ Constructor(logEntries[i].error) = "Error"

\* C19: when ExceptionRegistry.handleException finds no handler for an
\* exception, neither under its constructor nor under its kind, it appends
\* exactly one record for that exception to the log, under the given context
\* and without wrapping.
C19_RegistryFallsThroughToLog ==
    [][(/\ DispatchStep("registry") /\ dispatch'.error.isError
        /\ ConcreteKey(dispatch'.error) \notin DOMAIN handlers
        /\ ClassifiedKey(dispatch'.error) \notin DOMAIN handlers)
         => /\ Len(Appended) = 1
            /\ Appended[1].error = dispatch'.error
            /\ Appended[1].context.component = dispatch'.context
      ]_vars

\* C20: every exception that reaches ExceptionInterceptor.handleException
\* ends with a record for that exception in the log, whether no handler
\* matches it, a matching handler returns normally, or a matching handler
\* throws.
C20_InterceptorAlwaysLogs ==
    [][DispatchStep("interceptor")
         => \E i \in 1..Len(Appended) :
              /\ Appended[i].error.message = dispatch'.error.message
              /\ Appended[i].context.component = dispatch'.context
      ]_vars

(***************************************************************************)
(* The two classifiers over every exception name and a message made of     *)
(* any choice of the words they look for.                                  *)
(***************************************************************************)
NetworkRequestFailed == MkError("Error", (<<"N","e","t","w","o","r","k"," ","r","e","q","u","e","s","t"," ","f","a","i","l","e","d">>))

\* the words the classifiers look for, and 'Network' with a capital
Fragments ==
    <<<<"n","u","l","l">>,
      <<"u","n","d","e","f","i","n","e","d">>,
      <<"i","s"," ","n","o","t"," ","a"," ","f","u","n","c","t","i","o","n">>,
      <<"f","e","t","c","h">>,
      <<"n","e","t","w","o","r","k">>,
      <<"t","i","m","e","o","u","t">>,
      <<"J","S","O","N">>,
      <<"m","e","m","o","r","y">>,
      <<"D","O","M">>,
      <<"N","e","t","w","o","r","k">>>>

RECURSIVE JoinFragments(_, _)
\* the message made of the chosen words, from the i-th on, separated by spaces
JoinFragments(chosen, i) ==
    IF i > Len(Fragments) THEN <<>>
    ELSE (IF i \in chosen THEN Fragments[i] \o <<" ">> ELSE <<>>)
            \o JoinFragments(chosen, i + 1)



InitClassifier ==
    /\ calls = [s \in Slots |-> IdleCall]
    /\ timers = {}
    /\ logEntries = <<>>
    /\ handlers = [k \in {} |-> NoHandler]
    /\ dispatch = [count |-> 0, by |-> "", error |-> NoError, context |-> "",
                   extraInfo |-> NoExtraInfo, invoked |-> <<>>, outcome |-> ""]
    /\ classification \in
         [error : {MkError(n, JoinFragments(chosen, 1)) :
                      n \in {"TypeError", "RangeError", "SyntaxError",
                             "ReferenceError", "AbortError", "Error"},
                      chosen \in SUBSET (1..Len(Fragments))}
                  \cup {NullReference, JsonSyntaxError, NetworkRequestFailed},
          registryType : {""}]
    /\ wrapped = [by |-> "", pc |-> "", context |-> "",
                  threw |-> FALSE, thrown |-> NoError, outcome |-> ""]
    /\ isInitialized = FALSE
    /\ listeners = <<>>
    /\ initializeCalls = 0
    /\ isMonitoring = FALSE
    /\ config = [instance |-> FALSE, options |-> <<>>]
    /\ access = [op |-> "", obj |-> <<>>, path |-> <<>>, threw |-> FALSE, returned |-> <<>>]
    /\ boundary = [hasError |-> FALSE, error |-> NoError, onErrorCalls |-> 0]

\* a caller calls ExceptionLogger.log(error, context, extraInfo)
LogException(error, context, extraInfo) ==
    /\ logEntries' = LogWrite(logEntries, error, GeneralContext(context, extraInfo))
    /\ UNCHANGED <<calls, timers, handlers, dispatch,
                   classification, wrapped, isInitialized, listeners, initializeCalls,
                   isMonitoring, config, access, boundary>>

\* the registry classifies the exception
MapErrorToExceptionType ==
    /\ classification.registryType = ""
    /\ classification' =
         [classification EXCEPT !.registryType = mapErrorToExceptionType(classification.error)]
    /\ UNCHANGED <<calls, timers, logEntries, handlers, dispatch,
                   wrapped, isInitialized, listeners, initializeCalls,
                   isMonitoring, config, access, boundary>>

NextClassifier ==
    \/ logEntries = <<>> /\ LogException(classification.error, "test", NoExtraInfo)
    \/ MapErrorToExceptionType

SpecClassifier == InitClassifier /\ [][NextClassifier]_vars

\* the exception was logged, and the type its record got
Logged == logEntries # <<>>
LoggedType == logEntries[1].type
\* the registry's classifier was applied
Mapped == classification.registryType # ""

\* the kind the ordered list of rules gives: the first rule that matches
FirstRule(e) ==
    LET has(w) == Includes(e.message, w) IN
    IF e.name = "TypeError" /\ (has(sub_null) \/ has(sub_undefined)) THEN NULL_POINTER
    ELSE IF e.name = "TypeError" /\ has(sub_is_not_a_function) THEN TYPE_ERROR
    ELSE IF e.name = "RangeError" THEN RANGE_ERROR
    ELSE IF e.name = "SyntaxError" THEN SYNTAX_ERROR
    ELSE IF e.name = "ReferenceError" THEN REFERENCE_ERROR
    ELSE IF e.name = "AbortError" THEN NETWORK_ERROR
    ELSE IF has(sub_fetch) \/ has(sub_network) \/ has(sub_timeout) THEN NETWORK_ERROR
    ELSE IF has(sub_JSON) THEN DATA_ERROR
    ELSE IF has((<<"m","e","m","o","r","y">>)) \/ has((<<"D","O","M">>)) THEN RESOURCE_ERROR
    ELSE GENERAL_ERROR

\* C24: for every exception name and message the registry's classifier
\* returns the kind of the first rule, in the order 1 to 10, whose condition
\* holds; a TypeError whose message contains 'fetch', 'network' or 'timeout'
\* but none of 'null', 'undefined', 'is not a function' is a NetworkError.
C24_FirstRuleWins ==
    Mapped => classification.registryType = FirstRule(classification.error)

\* C25: every exception named TypeError whose message contains 'null' is
\* classified NullReference by the log's classifier and by the registry's,
\* whatever else the message contains.
C25_NullReference ==
    (/\ classification.error.name = "TypeError"
     /\ Includes(classification.error.message, sub_null))
        => /\ Logged => LoggedType = NULL_POINTER
           /\ Mapped => classification.registryType = NULL_POINTER

\* a TypeError about null whose message also names fetch, JSON and memory
\* went through both classifiers
C25_Witness ==
    /\ classification.error = MkError("TypeError", JoinFragments({1, 4, 7, 8}, 1))
    /\ Logged /\ LoggedType = NULL_POINTER
    /\ Mapped /\ classification.registryType = NULL_POINTER

C27_JsonSyntaxErrorIsData ==
    (Logged /\ classification.error = JsonSyntaxError) => LoggedType = DATA_ERROR

\* C28: logging Error('Network request failed') yields a record of type
\* NETWORK_ERROR: the network/fetch/timeout check does not depend on case.
C28_NetworkAnyCase ==
    (Logged /\ classification.error = NetworkRequestFailed) => LoggedType = NETWORK_ERROR

(***************************************************************************)
(* The Exception Log filled up to its cap and beyond.  The exceptions      *)
(* written take turns, so that neighbouring records differ.                *)
(***************************************************************************)
Rotation ==
    <<MkError("Error", <<"a">>), MkError("Error", <<"b">>), MkError("Error", <<"c">>)>>

\* the exception written next into a log holding `entries`
Turn(entries) ==
    IF entries = <<>> THEN Rotation[1]
    ELSE LET i == CHOOSE j \in 1..Len(Rotation) : Rotation[j] = entries[Len(entries)].error
         IN  Rotation[(i % Len(Rotation)) + 1]

\* ExceptionLogger.clearLogs()
ClearLogs ==
    /\ logEntries' = <<>>
    /\ UNCHANGED <<calls, timers, handlers, dispatch,
                   classification, wrapped, isInitialized, listeners, initializeCalls,
                   isMonitoring, config, access, boundary>>

NextLog ==
    \/ \E i \in 1..Len(Rotation) :
         /\ Rotation[i] = Turn(logEntries)
         /\ LogException(Rotation[i], "test", NoExtraInfo)
    \/ ClearLogs

SpecLog == Init /\ [][NextLog]_vars

\* C23: after any sequence of log and clearLogs calls the log holds at most
\* maxLogEntries (1000) records, in write order with the most recent last; a
\* write made at the cap evicts exactly the oldest record.
C23_BoundedFifo ==
    [][/\ Len(logEntries') <= 1000
       /\ logEntries' # <<>>
            => LET written == [error |-> Turn(logEntries), type |-> GENERAL_ERROR,
                               context |-> [component |-> "test", extra |-> "undefined"]]
               IN  /\ logEntries'[Len(logEntries')] = written
                   /\ Len(logEntries) < 1000 => logEntries' = Append(logEntries, written)
                   /\ Len(logEntries) = 1000
                        => /\ Len(logEntries') = 1000
                           /\ \A i \in 1..999 : logEntries'[i] = logEntries[i + 1]
      ]_vars

\* after 1001 writes the log holds 1000 records: the first is the second
\* record written, the last is the 1001st
C23_Witness ==
    /\ Len(logEntries) = 1000
    /\ logEntries[1].error = Rotation[2]
    /\ logEntries[2].error = Rotation[3]
    /\ logEntries[1000].error = Rotation[2]

(***************************************************************************)
(* The functions made by wrapSync and wrapAsync.                           *)
(***************************************************************************)


\* what the wrapped function does: it returns, or it throws an Error, a string,
\* null or undefined
FnOutcomes ==
    {[threw |-> FALSE, thrown |-> NoError]}
    \cup {[threw |-> TRUE, thrown |-> v] :
            v \in {NullReference, RawString(msg_boom), JsNull,
                   [isError |-> FALSE, name |-> "undefined", message |-> sub_undefined]}}

\* try { return fn(...args) } catch (error) { this.handleException(error,
\* context, { args }); return undefined }: the end of a call of the wrapper
WrapperEnds(by, fn, context) ==
    IF ~fn.threw
    THEN /\ wrapped' = [by |-> by, pc |-> "done", context |-> context,
                        threw |-> FALSE, thrown |-> NoError, outcome |-> "value"]
         /\ UNCHANGED <<calls, timers, logEntries, handlers, dispatch,
                        classification, isInitialized, listeners, initializeCalls,
                   isMonitoring, config, access, boundary>>
    ELSE /\ dispatch.count < MaxDispatch
         /\ LET w == ExceptionInterceptor_handleException(
                        DispatchWorld, fn.thrown, context, ([given |-> TRUE, extra |-> "undefined", args |-> <<>>]))
            IN  /\ Dispatched("interceptor", w, fn.thrown, context, ([given |-> TRUE, extra |-> "undefined", args |-> <<>>]))
                /\ wrapped' = [by |-> by, pc |-> "done", context |-> context,
                               threw |-> TRUE, thrown |-> fn.thrown,
                               outcome |-> IF w.outcome = "threw" THEN "threw"
                                           ELSE "undefined"]

\* a call of a function made by wrapSync(fn, context)
WrapSyncCall(fn, context) ==
    /\ wrapped.pc # "awaiting"      \* one wrapper call at a time
    /\ WrapperEnds("wrapSync", fn, (IF context = "" THEN ("sync-function") ELSE context))

\* a call of a function made by wrapAsync(fn, context), up to `await fn(...args)`
WrapAsyncCall(context) ==
    /\ wrapped.pc # "awaiting"
    /\ wrapped' = [by |-> "wrapAsync", pc |-> "awaiting",
                   context |-> (IF context = "" THEN ("async-function") ELSE context),
                   threw |-> FALSE, thrown |-> NoError, outcome |-> ""]
    /\ UNCHANGED <<calls, timers, logEntries, handlers, dispatch,
                   classification, isInitialized, listeners, initializeCalls,
                   isMonitoring, config, access, boundary>>

\* the promise of the wrapped async function settles
WrapAsyncSettles(fn) ==
    /\ wrapped.pc = "awaiting"
    /\ WrapperEnds("wrapAsync", fn, wrapped.context)


NextWrap ==
    \/ \E k \in {ConstructorKey("TypeError"), ConstructorKey("String")}, h \in Handlers :
          RegisterHandler(k, h, "medium")
    \/ \E fn \in FnOutcomes, c \in ({"", "my-context"}) : WrapSyncCall(fn, c)
    \/ \E c \in ({"", "my-context"}) : WrapAsyncCall(c)
    \/ \E fn \in FnOutcomes : WrapAsyncSettles(fn)

SpecWrap == Init /\ [][NextWrap]_vars

\* C21: a function made by wrapSync or wrapAsync never throws (never
\* rejects), whatever value the wrapped function throws, null, undefined and
\* other non-Error values included, and whatever the matched handler does; on
\* failure it dispatches the thrown value once and returns undefined.
C21_WrappersNeverThrow ==
    [][(wrapped'.pc = "done" /\ wrapped'.threw /\ <<wrapped, dispatch>>' # <<wrapped, dispatch>>)
         => /\ wrapped'.outcome = "undefined"
            /\ dispatch'.count = dispatch.count + 1
            /\ dispatch'.error = wrapped'.thrown
            /\ Len(dispatch'.invoked) <= 1
      ]_vars

(***************************************************************************)
(* ExceptionInterceptor.initialize and the two window listeners.  The      *)
(* page has no window.React.ErrorBoundary, so initialize leaves React      *)
(* alone.                                                                  *)
(***************************************************************************)
\* initialize() without its isInitialized check
initializeUnguarded(flag, ls) ==
    [isInitialized |-> TRUE, listeners |-> ls \o <<"unhandledrejection", "error">>]

\* initialize(): the flag and window's listeners after the call
initialize(flag, ls) ==
    IF flag THEN [isInitialized |-> flag, listeners |-> ls]
    ELSE [isInitialized |-> TRUE, listeners |-> ls \o <<"unhandledrejection", "error">>]

\* a caller calls ExceptionInterceptor.getInstance().initialize()
Initialize ==
    /\ initializeCalls < MaxInitialize
    /\ initializeCalls' = initializeCalls + 1
    /\ isInitialized' = initialize(isInitialized, listeners).isInitialized
    /\ listeners' = initialize(isInitialized, listeners).listeners
    /\ UNCHANGED <<calls, timers, logEntries, handlers, dispatch, classification, wrapped,
                   isMonitoring, config, access, boundary>>

\* the listeners of one event type
ListenersOf(ls, type) == {i \in 1..Len(ls) : ls[i] = type}

RECURSIVE RunListeners(_, _, _, _, _)
\* window dispatches an event: its listeners run in the order they were added,
\* each calling this.handleException(value, context)
RunListeners(w, ls, type, value, context) ==
    IF ls = <<>> THEN w
    ELSE RunListeners(
            IF Head(ls) = type
            THEN ExceptionInterceptor_handleException(w, value, context, NoExtraInfo)
            ELSE w,
            Tail(ls), type, value, context)

\* an event of the type reaches window while listeners for it are installed
WindowEvent(type, value, context) ==
    LET n == Cardinality(ListenersOf(listeners, type))
        w == RunListeners(DispatchWorld, listeners, type, value, context)
    IN  /\ n > 0
        /\ dispatch.count + n <= MaxDispatch
        /\ logEntries' = w.log
        /\ dispatch' = [count |-> dispatch.count + n, by |-> "interceptor",
                        error |-> value, context |-> context,
                        extraInfo |-> NoExtraInfo,
                        invoked |-> w.invoked, outcome |-> w.outcome]
        /\ UNCHANGED <<calls, timers, handlers, classification, wrapped,
                       isInitialized, listeners, initializeCalls,
                   isMonitoring, config, access, boundary>>

\* a promise is rejected with `reason` and nothing handles the rejection
UnhandledRejection(reason) ==
    /\ ListenersOf(listeners, "unhandledrejection") # {}
    /\ WindowEvent("unhandledrejection", reason, "unhandledrejection")

\* an exception escapes to the top level
UncaughtError(error) ==
    /\ ListenersOf(listeners, "error") # {}
    /\ WindowEvent("error", error, "globalerror")

NextInterceptor ==
    \/ Initialize
    \/ \E h \in Handlers : RegisterHandler(ConstructorKey("TypeError"), h, "medium")
    \/ UnregisterHandler(ConstructorKey("TypeError"))
    \/ \E e \in {NullReference, OutOfMemory} :
          \/ UnhandledRejection(e)
          \/ UncaughtError(e)

SpecInterceptor == Init /\ [][NextInterceptor]_vars

\* C22: after any number of initialize() calls exactly one unhandled-rejection
\* listener and exactly one uncaught-error listener are installed; every call
\* after the first changes no state, so one escaped exception is handled
\* once, not once per initialize call.
C22_InitializeOnce ==
    [][/\ isInitialized' <=> initializeCalls' > 0
       /\ \A type \in {"unhandledrejection", "error"} :
            Cardinality(ListenersOf(listeners', type)) = IF initializeCalls' > 0 THEN 1 ELSE 0
       /\ Len(listeners') = IF initializeCalls' > 0 THEN 2 ELSE 0
       /\ (initializeCalls' > initializeCalls /\ initializeCalls > 0)
            => UNCHANGED <<isInitialized, listeners, logEntries, handlers, dispatch>>
       /\ dispatch' # dispatch
            => /\ dispatch'.count = dispatch.count + 1
               /\ Len(dispatch'.invoked) <= 1
               /\ Cardinality({i \in 1..Len(Appended) :
                     Appended[i].context.component = dispatch'.context}) <= 1
               /\ Len(Appended) + Len(dispatch'.invoked) >= 1
      ]_vars

\* initialize() was called three times and one rejection was then handled
\* once
C22_Witness ==
    /\ initializeCalls = 3
    /\ isInitialized
    /\ listeners = <<"unhandledrejection", "error">>
    /\ dispatch.count = 1 /\ dispatch.context = "unhandledrejection"
    /\ Len(logEntries) = 1
    /\ logEntries[1].error = NullReference

(***************************************************************************)
(* Values that are not Error objects, logged and dispatched.               *)
(***************************************************************************)
\* the string 'boom', the string 'Failed to fetch' and the number 42
RawValues ==
    {RawString(msg_boom), RawString((<<"F","a","i","l","e","d"," ","t","o"," ","f","e","t","c","h">>)),
     [isError |-> FALSE, name |-> "number", message |-> NumberToString(42)]}


\* a caller writes a value to the log; the number of such calls is bounded
LogValue(value, context, extraInfo) ==
    /\ Len(logEntries) < MaxLogged
    /\ LogException(value, context, extraInfo)

NextCoerce ==
    \/ \E k \in {ConstructorKey("String"), KindKey(NETWORK_ERROR), KindKey(GENERAL_ERROR)} :
          \/ \E h \in Handlers : RegisterHandler(k, h, "medium")
          \/ UnregisterHandler(k)
    \/ \E v \in RawValues : RegistryHandleException(v, "test-context", NoExtraInfo)
    \/ \E v \in RawValues : LogValue(v, "test-context", NoExtraInfo)

SpecCoerce == Init /\ [][NextCoerce]_vars

\* C29: a thrown value that is not an exception is first wrapped into an
\* exception whose message is the value's string form and is then classified
\* on that message, on every path that classifies: ExceptionLogger.log and
\* ExceptionRegistry.handleException both complete without throwing.
C29_RawValuesCoerced ==
    [][/\ (dispatch' = dispatch /\ Len(logEntries') = Len(logEntries) + 1)
            => LET rec == logEntries'[Len(logEntries')] IN
               /\ rec.error.isError /\ rec.error.name = "Error"
               /\ \E v \in RawValues : rec.error.message = v.message
               /\ rec.type = FirstRule(rec.error)
       /\ DispatchStep("registry")
            => /\ dispatch'.outcome = "returned"
               /\ KindKey(FirstRule(MkError("Error", dispatch'.error.message)))
                    \in DOMAIN handlers => dispatch'.invoked # <<>>
      ]_vars

(***************************************************************************)
(* SafeFetch against a failing transport while handlers are registered.    *)
(***************************************************************************)


NextPipeline ==
    \/ \E k \in {ConstructorKey("TypeError"), KindKey(NETWORK_ERROR)}, h \in Handlers :
          RegisterHandler(k, h, "medium")
    \/ \E o \in OptionsOver({0, 1}, ({1000}), {JUndefined}, ({"", "/backup"}),
                            {"undefined"}, {NoBody}) :
          Fetch(Caller, "/api", o)
    \/ \E e \in TransportRejections : PrimaryRejects(Caller, e)
    \/ \E k \in 0..MaxRetry : TimeoutFires(Caller, k)
    \/ DelayElapses(Caller)
    \/ \E e \in TransportRejections : FallbackRejects(Caller, e)

SpecPipeline == Init /\ [][NextPipeline]_vars

\* C30: a failure raised inside the request engine goes through the same
\* pipeline as any other exception: when a handler is registered that matches
\* the failure, by its constructor or by its kind, that handler is invoked
\* for the failure, and the failure is written to the log.
C30_EngineFailuresDispatched ==
    [][\A s \in Slots :
         (calls'[s].attempt > calls[s].attempt /\ calls'[s].lastFailure.isError
            /\ calls'[s].lastFailureResponse = NoResponse)
            => LET failure == calls'[s].lastFailure IN
               /\ Len(Appended) = 1 /\ Appended[1].error = failure
               /\ (\/ ConstructorKey(Constructor(failure)) \in DOMAIN handlers
                   \/ KindKey(FirstRule(failure)) \in DOMAIN handlers)
                    => \E j \in 1..Len(dispatch'.invoked) :
                          dispatch'.invoked[j].error = failure
      ]_vars

(***************************************************************************)
(* ErrorProtectionConfig: the process-wide settings singleton.             *)
(***************************************************************************)
\* the options the constructor sets (NODE_ENV is not 'production')
ErrorProtectionDefaults ==
    [protectionLevel |-> "advanced", logLevel |-> "debug",
     enableGlobalInterceptor |-> TRUE, enableErrorBoundary |-> TRUE,
     enableSafeFetch |-> TRUE, enableSafeAccessor |-> TRUE,
     enableMemoryGuard |-> TRUE, enableErrorCenter |-> TRUE,
     requestTimeout |-> 10000, maxRetryCount |-> 3, initialRetryDelay |-> 1000,
     maxTaskCount |-> 500, domThrottleDelay |-> 100, memoryThreshold |-> 500,
     throwErrorsInDevelopment |-> TRUE, silentInProduction |-> TRUE]

\* getInstance(): the singleton, constructed with the defaults when there is
\* none
getInstance(c) ==
    IF c.instance THEN c ELSE [instance |-> TRUE, options |-> ErrorProtectionDefaults]

\* updateConfig that starts again from the defaults
updateConfigFromDefaults(c, options) ==
    [instance |-> TRUE,
     options |-> [k \in DOMAIN ErrorProtectionDefaults \cup DOMAIN options |->
                    IF k \in DOMAIN options THEN options[k]
                    ELSE ErrorProtectionDefaults[k]]]

\* updateConfig(options): instance.options = { ...instance.options, ...options }
updateConfig(c, options) ==
    LET instance == getInstance(c)
    IN  [instance |-> TRUE,
         options |-> [k \in DOMAIN instance.options \cup DOMAIN options |->
                        IF k \in DOMAIN options THEN options[k]
                        ELSE instance.options[k]]]

\* a caller calls ErrorProtectionConfig.getConfig()
GetConfig ==
    /\ config' = getInstance(config)
    /\ UNCHANGED <<calls, timers, logEntries, handlers, dispatch, classification,
                   wrapped, isInitialized, listeners, initializeCalls,
                   isMonitoring, access, boundary>>

\* a caller calls ErrorProtectionConfig.updateConfig(options)
UpdateConfig(options) ==
    /\ config' = updateConfig(config, options)
    /\ UNCHANGED <<calls, timers, logEntries, handlers, dispatch, classification,
                   wrapped, isInitialized, listeners, initializeCalls,
                   isMonitoring, access, boundary>>

\* a caller calls ErrorProtectionConfig.resetConfig(): instance = null
ResetConfig ==
    /\ config' = [instance |-> FALSE, options |-> <<>>]
    /\ UNCHANGED <<calls, timers, logEntries, handlers, dispatch, classification,
                   wrapped, isInitialized, listeners, initializeCalls,
                   isMonitoring, access, boundary>>

\* the partial option objects callers pass to updateConfig
PartialOptions ==
    {<<>>,
     [protectionLevel |-> "strict", logLevel |-> "error"],
     [logLevel |-> "warn"],
     [memoryThreshold |-> 800],
     [maxRetryCount |-> 5, memoryThreshold |-> 800],
     [requestTimeout |-> 5000],
     [enableMemoryGuard |-> FALSE],
     [maxTaskCount |-> 100],
     [domThrottleDelay |-> 200]}

NextConfig ==
    \/ GetConfig
    \/ \E options \in PartialOptions : UpdateConfig(options)
    \/ ResetConfig

SpecConfig == Init /\ [][NextConfig]_vars

\* C34: updateConfig(p) sets exactly the options named in p and leaves every
\* other option at its current value; after resetConfig() every option read
\* is back at its default, whatever updates preceded it.
C34_UpdateMergesResetRestores ==
    [][/\ \A p \in PartialOptions :
            UpdateConfig(p)
            => /\ config'.instance
               /\ DOMAIN config'.options = DOMAIN ErrorProtectionDefaults
               /\ \A k \in DOMAIN p : config'.options[k] = p[k]
               /\ \A k \in DOMAIN ErrorProtectionDefaults \ DOMAIN p :
                     config'.options[k] = getInstance(config).options[k]
       /\ ResetConfig => getInstance(config').options = ErrorProtectionDefaults
      ]_vars

\* two updates have been merged: the first set the levels, the second the
\* memory threshold, and the other options are still at their defaults
C34_Witness ==
    /\ config.instance
    /\ config.options.protectionLevel = "strict"
    /\ config.options.logLevel = "error"
    /\ config.options.memoryThreshold = 800
    /\ config.options.maxRetryCount = 3
    /\ config.options.requestTimeout = 10000

(***************************************************************************)
(* MemoryGuard: the periodic sampler of memory and DOM-node usage.  Its    *)
(* thresholds are those its constructor sets.                              *)
(***************************************************************************)
\* a caller calls memoryGuard.startMonitoring() while it is not monitoring
StartMonitoring ==
    /\ ~isMonitoring
    /\ isMonitoring' = TRUE
    /\ UNCHANGED <<calls, timers, logEntries, handlers, dispatch, classification,
                   wrapped, isInitialized, listeners, initializeCalls,
                   config, access, boundary>>

\* a caller calls memoryGuard.stopMonitoring() while it is monitoring
StopMonitoring ==
    /\ isMonitoring
    /\ isMonitoring' = FALSE
    /\ UNCHANGED <<calls, timers, logEntries, handlers, dispatch, classification,
                   wrapped, isInitialized, listeners, initializeCalls,
                   config, access, boundary>>

\* the interval fires: checkMemoryUsage() finds usedMB in use and
\* checkDomNodes() finds totalNodes nodes; each warns when its reading is
\* over the threshold, and a warning calls ExceptionLogger.log
SamplerTick(usedMB, totalNodes) ==
    LET memoryWarning ==
            MkError("Error", <<"M","e","m","o","r","y"," ","u","s","a","g","e"," ","e","x","c","e","e","d","s"," ","t","h","r","e","s","h","o","l","d",":"," ">> \o NumberToString(usedMB)
                \o <<"M","B"," ","/"," ">>
                \o NumberToString(ErrorProtectionDefaults.memoryThreshold)
                \o <<"M","B">>)
        domWarning ==
            MkError("Error", <<"D","O","M"," ","n","o","d","e"," ","c","o","u","n","t"," ","e","x","c","e","e","d","s"," ","t","h","r","e","s","h","o","l","d",":"," ">> \o NumberToString(totalNodes)
                \o <<" ","/"," ">> \o NumberToString(10000))
        afterMemory ==
            IF usedMB > ErrorProtectionDefaults.memoryThreshold
            THEN LogWrite(logEntries, memoryWarning,
                     GeneralContext("memory-guard", [given |-> TRUE, usedMB |-> usedMB]))
            ELSE logEntries
        afterDom ==
            IF totalNodes > 10000
            THEN LogWrite(afterMemory, domWarning,
                     GeneralContext("memory-guard", [given |-> TRUE, totalNodes |-> totalNodes]))
            ELSE afterMemory
    IN  /\ isMonitoring
        /\ Len(logEntries) < MaxLogged
        /\ logEntries' = afterDom
        /\ UNCHANGED <<calls, timers, handlers, dispatch, classification,
                       wrapped, isInitialized, listeners, initializeCalls,
                       isMonitoring, config, access, boundary>>

NextSampler ==
    \/ StartMonitoring
    \/ StopMonitoring
    \/ \E usedMB \in {100, 600, 700}, totalNodes \in {50, 20000} :
          SamplerTick(usedMB, totalNodes)

SpecSampler == Init /\ [][NextSampler]_vars

\* C31: the periodic resource sampler never changes the Exception Log: no
\* tick of the sampler, including one that finds memory or DOM-node usage
\* over its threshold, appends a record to the log.
C31_SamplerLeavesLog ==
    [][isMonitoring /\ isMonitoring' => logEntries' = logEntries]_vars

(***************************************************************************)
(* ExceptionLogger.getStatistics.  Every record of the model is written on *)
(* the day of the call, so the filter on today's records keeps them all;   *)
(* successRate is not modelled.                                            *)
(***************************************************************************)
\* Object.values(ExceptionType), in the order of the enum's declaration
ExceptionTypes ==
    <<NULL_POINTER, TYPE_ERROR, RANGE_ERROR, SYNTAX_ERROR, REFERENCE_ERROR,
      NETWORK_ERROR, DATA_ERROR, RESOURCE_ERROR, GENERAL_ERROR>>

\* getStatistics(): the counts per kind and the first three kinds after a
\* stable sort of the kinds by descending count
getStatistics(entries) ==
    LET n == Len(ExceptionTypes)
        typeCounts ==
            [t \in {ExceptionTypes[i] : i \in 1..n} |->
                Cardinality({i \in 1..Len(entries) : entries[i].type = t})]
        count(i) == typeCounts[ExceptionTypes[i]]
        \* the number of kinds sorted before the i-th
        before(i) ==
            Cardinality({j \in 1..n :
                \/ count(j) > count(i)
                \/ count(j) = count(i) /\ j < i})
    IN  [totalExceptions |-> Len(entries),
         typeCounts |-> typeCounts,
         topTypes |-> [r \in 1..3 |->
                         ExceptionTypes[CHOOSE i \in 1..n : before(i) = r - 1]]]

NextStatistics ==
    \/ \E e \in {NullReference, AbortError, NetworkRequestFailed, JsonSyntaxError,
                 MkError("Error", msg_boom)} :
          LogValue(e, "test", NoExtraInfo)
    \/ ClearLogs

SpecStatistics == Init /\ [][NextStatistics]_vars

\* C32: getStatistics reports totalExceptions equal to the number of records
\* logged today and typeCounts[k] equal to the number of those records of
\* kind k for every kind k, and topTypes lists three kinds in descending
\* count order; after two NullReference records and one NetworkError record
\* topTypes is [NullReference, NetworkError, General].
C32_Statistics ==
    LET st == getStatistics(logEntries)
        kinds == {ExceptionTypes[i] : i \in 1..Len(ExceptionTypes)}
        records(k) == {i \in 1..Len(logEntries) : logEntries[i].type = k}
    IN  /\ st.totalExceptions = Len(logEntries)
        /\ \A k \in kinds : st.typeCounts[k] = Cardinality(records(k))
        /\ \A i \in 1..Len(logEntries) : logEntries[i].type \in kinds
        /\ st.typeCounts[st.topTypes[1]] >= st.typeCounts[st.topTypes[2]]
        /\ st.typeCounts[st.topTypes[2]] >= st.typeCounts[st.topTypes[3]]
        /\ \A k \in kinds \ {st.topTypes[r] : r \in 1..3} :
              st.typeCounts[k] <= st.typeCounts[st.topTypes[3]]
        /\ (/\ Len(logEntries) = 3
            /\ Cardinality(records(NULL_POINTER)) = 2
            /\ Cardinality(records(NETWORK_ERROR)) = 1)
              => st.topTypes = <<NULL_POINTER, NETWORK_ERROR, GENERAL_ERROR>>

(***************************************************************************)
(* The registry's map on its own: registrations and removals under         *)
(* constructor keys and kind keys, two of them of the same name.           *)
(***************************************************************************)
NextRegistry ==
    \E k \in {ConstructorKey("TypeError"), KindKey(TYPE_ERROR),
              ConstructorKey("Error"), KindKey(NETWORK_ERROR)} :
        \/ \E h \in Handlers, severity \in {"medium", "high"} :
              RegisterHandler(k, h, severity)
        \/ UnregisterHandler(k)

SpecRegistry == Init /\ [][NextRegistry]_vars

\* C33: the registry is one flat map keyed by discriminator: after
\* registerHandler(d, h) getHandler(d) returns h, a later registration under
\* the same d replacing the earlier one; after unregisterHandler(d)
\* getHandler(d) returns nothing; and registering or removing an entry under
\* one key never changes the entry under another key, in particular not the
\* entry under the kind key when d is a constructor key, nor the reverse.
C33_FlatMap ==
    [][LET keys == {ConstructorKey("TypeError"), KindKey(TYPE_ERROR),
                    ConstructorKey("Error"), KindKey(NETWORK_ERROR)}
           Entry(hs, k) == IF k \in DOMAIN hs THEN hs[k] ELSE NoHandler
           OthersKept(d) ==
               \A k \in keys \ {d} : Entry(handlers', k) = Entry(handlers, k)
       IN  \A d \in keys :
             /\ \A h \in Handlers, severity \in {"medium", "high"} :
                   RegisterHandler(d, h, severity)
                   => /\ getHandler(handlers', d) = h
                      /\ handlers'[d].severity = severity
                      /\ OthersKept(d)
             /\ UnregisterHandler(d)
                   => /\ getHandler(handlers', d) = NoHandler
                      /\ d \notin DOMAIN handlers'
                      /\ OthersKept(d)
      ]_vars

\* the constructor TypeError and the kind 'TypeError' hold different
\* handlers at once, the first after a replacement
C33_Witness ==
    /\ getHandler(handlers, ConstructorKey("TypeError")) = Handler("returns", NoError)
    /\ handlers[ConstructorKey("TypeError")].severity = "high"
    /\ getHandler(handlers, KindKey(TYPE_ERROR)) = Handler("throws", HandlerError)
    /\ getHandler(handlers, KindKey(NETWORK_ERROR)) = NoHandler

(***************************************************************************)
(* SafeAccessor.  A value is an object with its fields, null, undefined or *)
(* a number; a path is the sequence of keys path.split('.') gives.  The    *)
(* targets hold no arrays, so the Array.isArray branches are never taken.  *)
(* A call yields whether it threw, what it returned and the target after   *)
(* it.                                                                     *)
(***************************************************************************)
RECURSIVE SafeAccessor_get(_, _, _)
\* the loop of get: `result` is the value reached, `keys` the keys left
SafeAccessor_get(result, keys, defaultValue) ==
    IF keys = <<>> THEN result
    ELSE IF result.ty \in {"null", "undefined"} THEN defaultValue
    ELSE IF result.ty = "object" /\ Head(keys) \in DOMAIN result.fields
         THEN SafeAccessor_get(result.fields[Head(keys)], Tail(keys), defaultValue)
    ELSE defaultValue

RECURSIVE SafeAccessor_has(_, _)
\* the loop of has
SafeAccessor_has(result, keys) ==
    IF keys = <<>> THEN TRUE
    ELSE IF result.ty \in {"null", "undefined"} THEN FALSE
    ELSE IF result.ty = "object" /\ Head(keys) \in DOMAIN result.fields
         THEN SafeAccessor_has(result.fields[Head(keys)], Tail(keys))
    ELSE FALSE

RECURSIVE SafeAccessor_set(_, _, _)
\* the loop of set and the assignment after it.  `typeof result === 'object'`
\* holds for null too: after the loop nothing has checked the value reached
\* for null, and assigning to a property of null throws a TypeError
SafeAccessor_set(result, keys, value) ==
    LET key == Head(keys)
        With(v) == [result EXCEPT !.fields =
                        [k \in DOMAIN result.fields \cup {key} |->
                            IF k = key THEN v ELSE result.fields[k]]]
    IN  IF Len(keys) > 1
        THEN IF result.ty \in {"null", "undefined"}
             THEN [threw |-> FALSE, returned |-> FALSE, result |-> result]
             ELSE IF result.ty = "object"
             THEN LET child == IF key \in DOMAIN result.fields
                               THEN result.fields[key]
                               ELSE [ty |-> "object", fields |-> <<>>]
                      inner == SafeAccessor_set(child, Tail(keys), value)
                  IN  [inner EXCEPT !.result = With(inner.result)]
             ELSE [threw |-> FALSE, returned |-> FALSE, result |-> result]
        ELSE IF result.ty = "object"
             THEN [threw |-> FALSE, returned |-> TRUE, result |-> With(value)]
             ELSE IF result.ty = "null"
             THEN [threw |-> TRUE, returned |-> FALSE, result |-> result]
             ELSE [threw |-> FALSE, returned |-> FALSE, result |-> result]

RECURSIVE SafeAccessor_delete(_, _)
\* the loop of delete and the removal after it.  `typeof result === 'object'
\* && lastKey in result`: for null the typeof test holds and `in` throws a
\* TypeError
SafeAccessor_delete(result, keys) ==
    LET key == Head(keys)
        no == [threw |-> FALSE, returned |-> FALSE, result |-> result]
    IN  IF Len(keys) > 1
        THEN IF result.ty \in {"null", "undefined"} THEN no
             ELSE IF result.ty = "object" /\ key \in DOMAIN result.fields
             THEN LET inner == SafeAccessor_delete(result.fields[key], Tail(keys))
                  IN  [inner EXCEPT !.result =
                          [result EXCEPT !.fields[key] = inner.result]]
             ELSE no
        ELSE IF result.ty = "null"
             THEN [threw |-> TRUE, returned |-> FALSE, result |-> result]
             ELSE IF result.ty = "object" /\ key \in DOMAIN result.fields
             THEN [threw |-> FALSE, returned |-> TRUE,
                   result |-> [result EXCEPT !.fields =
                                  [k \in DOMAIN result.fields \ {key} |->
                                      result.fields[k]]]]
             ELSE no

\* a call is made on a target and a path chosen beforehand
InitAccessor ==
    LET Obj(f) == [ty |-> "object", fields |-> f]
        Null == [ty |-> "null"]
        One == [ty |-> "number", n |-> 1]
    IN  /\ calls = [s \in Slots |-> IdleCall]
        /\ timers = {}
        /\ logEntries = <<>>
        /\ handlers = [k \in {} |-> NoHandler]
        /\ dispatch = [count |-> 0, by |-> "", error |-> NoError, context |-> "",
                       extraInfo |-> NoExtraInfo, invoked |-> <<>>, outcome |-> ""]
        /\ classification = [error |-> NoError, registryType |-> ""]
        /\ wrapped = [by |-> "", pc |-> "", context |-> "",
                      threw |-> FALSE, thrown |-> NoError, outcome |-> ""]
        /\ isInitialized = FALSE
        /\ listeners = <<>>
        /\ initializeCalls = 0
        /\ isMonitoring = FALSE
        /\ config = [instance |-> FALSE, options |-> <<>>]
        /\ boundary = [hasError |-> FALSE, error |-> NoError, onErrorCalls |-> 0]
        /\ \E obj \in {Obj([a |-> Obj([b |-> Obj([c |-> One])])]),
                       Obj([a |-> Obj([b |-> Null])]),
                       Obj([a |-> Null]),
                       Obj([a |-> [ty |-> "undefined"]]),
                       Obj([a |-> One]),
                       Obj(<<>>),
                       Null,
                       One},
              n \in 1..3 :
             \E path \in [1..n -> {"a", "b", "c"}] :
                access = [op |-> "", obj |-> obj, path |-> path,
                          threw |-> FALSE, returned |-> <<>>]

\* a caller calls SafeAccessor.get(obj, path, 'default')
SafeGet ==
    /\ access.op = ""
    /\ access' = [access EXCEPT
          !.op = "get",
          !.returned = IF access.obj.ty # "object" THEN [ty |-> "default"]
                       ELSE SafeAccessor_get(access.obj, access.path, [ty |-> "default"])]
    /\ UNCHANGED <<calls, timers, logEntries, handlers, dispatch, classification, wrapped, isInitialized, listeners, initializeCalls, isMonitoring, config, boundary>>

\* a caller calls SafeAccessor.has(obj, path)
SafeHas ==
    /\ access.op = ""
    /\ access' = [access EXCEPT
          !.op = "has",
          !.returned = access.obj.ty = "object"
                         /\ SafeAccessor_has(access.obj, access.path)]
    /\ UNCHANGED <<calls, timers, logEntries, handlers, dispatch, classification, wrapped, isInitialized, listeners, initializeCalls, isMonitoring, config, boundary>>

\* a caller calls SafeAccessor.set(obj, path, 2)
SafeSet ==
    LET r == IF access.obj.ty # "object"
             THEN [threw |-> FALSE, returned |-> FALSE, result |-> access.obj]
             ELSE SafeAccessor_set(access.obj, access.path, [ty |-> "number", n |-> 2])
    IN  /\ access.op = ""
        /\ access' = [access EXCEPT !.op = "set", !.threw = r.threw,
                                    !.returned = r.returned, !.obj = r.result]
        /\ UNCHANGED <<calls, timers, logEntries, handlers, dispatch, classification, wrapped, isInitialized, listeners, initializeCalls, isMonitoring, config, boundary>>

\* a caller calls SafeAccessor.delete(obj, path)
SafeDelete ==
    LET r == IF access.obj.ty # "object"
             THEN [threw |-> FALSE, returned |-> FALSE, result |-> access.obj]
             ELSE SafeAccessor_delete(access.obj, access.path)
    IN  /\ access.op = ""
        /\ access' = [access EXCEPT !.op = "delete", !.threw = r.threw,
                                    !.returned = r.returned, !.obj = r.result]
        /\ UNCHANGED <<calls, timers, logEntries, handlers, dispatch, classification, wrapped, isInitialized, listeners, initializeCalls, isMonitoring, config, boundary>>

NextAccessor == SafeGet \/ SafeHas \/ SafeSet \/ SafeDelete

SpecAccessor == InitAccessor /\ [][NextAccessor]_vars

\* C35: get, set, delete and has never throw, for any target and any dot
\* path, including a path through a field that is missing or whose value is
\* null; they return the default value or false instead.
C35_AccessorNeverThrows == ~access.threw

(***************************************************************************)
(* ErrorBoundary: the component error boundary                             *)
(***************************************************************************)
\* getDerivedStateFromError and componentDidCatch for one error caught from a
\* child; `onError` tells whether the props carry an onError callback.  The
\* handler is looked up under error.constructor only
ComponentDidCatch(error, onError) ==
    LET errorInfo == [given |-> TRUE, extra |-> "componentStack"]
        logged == DefaultLog(DispatchWorld, error, "react-component", errorInfo)
        handler == getHandler(handlers, ConstructorKey(Constructor(error)))
        called == Invoke(logged, handler, error, "react-component", errorInfo)
        w == IF handler = NoHandler THEN logged
             ELSE IF handler.throws = NoError THEN called
             ELSE LogHandlerFailure(called, handler, error, "react-component", errorInfo)
    IN  /\ dispatch.count < MaxDispatch
        /\ boundary' = [hasError |-> TRUE, error |-> error,
                        onErrorCalls |-> boundary.onErrorCalls + (IF onError THEN 1 ELSE 0)]
        /\ logEntries' = w.log
        /\ dispatch' = [count |-> dispatch.count + 1, by |-> "boundary", error |-> error,
                        context |-> "react-component", extraInfo |-> errorInfo,
                        invoked |-> w.invoked, outcome |-> w.outcome]
        /\ UNCHANGED <<calls, timers, handlers, classification, wrapped, isInitialized,
                       listeners, initializeCalls, isMonitoring, config, access>>

NextBoundary ==
    \/ \E k \in {ConstructorKey("TypeError"), KindKey(NULL_POINTER), KindKey(GENERAL_ERROR)} :
          \/ \E h \in Handlers : RegisterHandler(k, h, "medium")
          \/ UnregisterHandler(k)
    \/ \E e \in {NullReference, MkError("Error", msg_boom)}, onError \in BOOLEAN :
          ComponentDidCatch(e, onError)

SpecBoundary == Init /\ [][NextBoundary]_vars

\* C36: when the error boundary catches an error it writes the error to the
\* Exception Log, calls onError if one is supplied, and dispatches the error
\* with the boundary's context so that the handler registered under the
\* error's constructor or, failing that, under its kind is invoked; a handler
\* that throws is isolated and reported as 'handler-failure'.
C36_BoundaryDispatches ==
    [][\A e \in {NullReference, MkError("Error", msg_boom)}, onError \in BOOLEAN :
          ComponentDidCatch(e, onError) =>
            LET handler == SelectHandler(handlers, e)
            IN  /\ boundary'.hasError /\ boundary'.error = e
                /\ Appended # <<>>
                /\ Appended[1].error = e
                /\ Appended[1].context.component = "react-component"
                /\ boundary'.onErrorCalls =
                      boundary.onErrorCalls + (IF onError THEN 1 ELSE 0)
                /\ dispatch'.outcome = "returned"
                /\ handler # NoHandler =>
                      /\ Len(dispatch'.invoked) = 1
                      /\ dispatch'.invoked[1].handler = handler
                      /\ dispatch'.invoked[1].context = "react-component"
                /\ handler = NoHandler => dispatch'.invoked = <<>>
                /\ (handler # NoHandler /\ handler.throws # NoError) =>
                      /\ Len(Appended) = 2
                      /\ Appended[2].context.component = "handler-failure"
                /\ (handler = NoHandler \/ handler.throws = NoError) =>
                      Len(Appended) = 1
    ]_vars

\* C37: the log's classifier and the registry's classifier return the same
\* kind for every exception name and message, except those for which the
\* memory/DOM check is the first check of the list that matches: there the
\* registry returns ResourceError and the log returns General; so no record
\* of the Exception Log has kind ResourceError.
C37_ClassifiersAgreeButResource ==
    /\ \A i \in DOMAIN logEntries : logEntries[i].type # RESOURCE_ERROR
    /\ Logged /\ Mapped =>
         IF FirstRule(classification.error) = RESOURCE_ERROR
         THEN /\ classification.registryType = RESOURCE_ERROR
              /\ LoggedType = GENERAL_ERROR
         ELSE LoggedType = classification.registryType

(***************************************************************************)
(* Progress of a SafeFetch.fetch call.  Every timer the call arms fires:   *)
(* the timeout timers of setTimeout(() => controller.abort(), timeout) and *)
(* the backoff timer.  Nothing makes the transport answer a request or     *)
(* deliver a body; the fallback request, the re-issued request and the     *)
(* body reads are made without a signal and after clearTimeout.            *)
(***************************************************************************)
SpecLive ==
    /\ Spec
    /\ \A k \in 0..MaxRetry : WF_vars(TimeoutFires(Caller, k))
    /\ WF_vars(DelayElapses(Caller))

\* C38: every SafeFetch.fetch call eventually resolves, provided every timer
\* it arms eventually fires, even when the transport never answers some
\* request: no stage of the call waits forever on the transport.
C38_EveryCallResolves == Started(Caller) ~> Done(Caller)

(***************************************************************************)
(* Two SafeFetch.fetch calls in flight at once.  Each call runs between    *)
(* its awaits without interruption; the calls interleave at the awaits:    *)
(* the transport's answer, the body read, the backoff delay, a timeout.    *)
(* Each call has its own url, so that a log record tells which call wrote  *)
(* it.                                                                     *)
(***************************************************************************)
NextConcurrent ==
    \E s \in Slots :
        \/ \E o \in OptionsOver({0, 1}, {1000}, {JUndefined}, {"", "/backup"},
                                {"undefined"}, {NoBody}) :
              Fetch(s, IF s = Caller THEN "/api/a" ELSE "/api/b", o)
        \/ \E r \in {Response(201, "h1", JsonBody(JObject("server", NoUpdatedAt))),
                     Response(500, "h1", BadBody)} :
              PrimaryResponds(s, r)
        \/ PrimaryRejects(s, NetworkFailure)
        \/ \E k \in 0..MaxRetry : TimeoutFires(s, k)
        \/ ReadBody(s)
        \/ DelayElapses(s)
        \/ FallbackResponds(s, Response(500, "h1", BadBody))
        \/ FallbackRejects(s, NetworkFailure)

SpecConcurrent == Init /\ [][NextConcurrent]_vars

\* C39: a timeout timer armed for primary attempt i can cancel only the
\* request of attempt i: a timer left armed by an attempt that failed before
\* its timeout, firing later, cancels no later attempt, no fallback-URL
\* request and no request of another call, and changes no result already
\* returned.
C39_TimerCancelsOwnAttemptOnly ==
    [][\A s \in Slots : \A k \in 0..MaxRetry :
         (<<s, k>> \in timers /\ <<s, k>> \notin timers') =>
            /\ \A t \in Slots \ {s} : calls'[t] = calls[t]
            /\ ~(calls[s].pc = "fetching" /\ calls[s].attempt = k) =>
                  /\ calls' = calls
                  /\ logEntries' = logEntries
                  /\ timers' = timers \ {<<s, k>>}
      ]_vars

\* the first attempt of call a was rejected before its timeout; its timer
\* fired while the second attempt was in flight, and so was a request of
\* call b: the second attempt is still in flight under its own timer
C39_Witness ==
    /\ calls[Caller].pc = "fetching"
    /\ calls[Caller].attempt = 1
    /\ calls[Caller].lastError = NetworkFailure
    /\ <<Caller, 0>> \notin timers
    /\ <<Caller, 1>> \in timers
    /\ calls["b"].pc = "fb_fetching"
    /\ <<"b", 0>> \notin timers
    /\ calls["b"].lastError = NetworkFailure

\* C40: for two SafeFetch.fetch calls that overlap and interleave at their
\* suspension points, each call makes its own retryCount + 1 primary
\* attempts and returns its own last error, unaffected by the other; every
\* failure record either call writes is appended to the shared Exception Log
\* exactly once, in the order of the writes, and the log's cap is respected.
C40_ConcurrentCallsIndependent ==
    [][/\ \E s \in Slots : \A t \in Slots \ {s} : calls'[t] = calls[t]
       /\ Len(logEntries') <= 1000
       /\ \/ logEntries' = logEntries
          \/ \E s \in Slots :
                LET last == logEntries'[Len(logEntries')]
                IN  /\ calls'[s] # calls[s]
                    /\ logEntries' = Append(logEntries, last)
                    /\ last.context.url \in {calls[s].url, calls[s].mergedOptions.fallbackUrl}
                    /\ last.context.options = calls[s].options
                    /\ last.context.component = "safe-fetch" =>
                          /\ last.context.attempt = calls[s].attempt
                          /\ last.error = calls'[s].lastError
       /\ \A s \in Slots :
             LET d == calls'[s]
             IN  /\ (d.pc = "fb_fetching" \/ (d.pc = "done" /\ d.doneAt = "failure")) =>
                       d.primaryCalls = d.mergedOptions.retryCount + 1
                 /\ d.primaryCalls <= d.mergedOptions.retryCount + 1
                 /\ (d.pc = "done" /\ d.doneAt = "failure") =>
                       /\ d.result.error = d.lastFailure
                       /\ d.result.error = d.lastError
                 /\ \A k \in 0..d.mergedOptions.retryCount :
                       Cardinality({j \in DOMAIN logEntries' :
                           logEntries'[j].context =
                               LogContext("safe-fetch", d.url, k, d.options)}) <= 1
      ]_vars

\* both calls made two attempts and failed, their failures interleaved: a
\* was rejected, b was rejected, a timed out, b was answered 500; each call
\* returned its own last error and the log holds the three records in the
\* order they were written
C40_Witness ==
    /\ Failed(Caller) /\ Failed("b")
    /\ calls[Caller].mergedOptions.retryCount = 1 /\ calls[Caller].primaryCalls = 2
    /\ calls["b"].mergedOptions.retryCount = 1 /\ calls["b"].primaryCalls = 2
    /\ calls[Caller].result.error = AbortError
    /\ calls["b"].result.error = HttpError(500)
    /\ Len(logEntries) = 3
    /\ logEntries[1].context.url = "/api/a" /\ logEntries[1].error = NetworkFailure
    /\ logEntries[2].context.url = "/api/b" /\ logEntries[2].error = NetworkFailure
    /\ logEntries[3].context.url = "/api/a" /\ logEntries[3].error = AbortError

====
